---- MODULE Spec2Model ----
(***************************************************************************)
(* A model of the mesh-reduce container codec: parseGLB / getAccessorData  *)
(* (src/src/glb-parser.js) and writeGLB (src/src/glb-writer.js).           *)
(*                                                                         *)
(* Byte buffers are modelled by their lengths and by the structure the     *)
(* code reads out of them.  JavaScript array indices are 0-based and are   *)
(* kept 0-based as values: accessor index i is element i + 1 of the        *)
(* sequence.  An absent (undefined) index is -1; an absent array is a      *)
(* record [present |-> FALSE, list |-> << >>].                             *)
(***************************************************************************)
EXTENDS Integers, Sequences, FiniteSets, TLC

VARIABLES
    pIn,        \* parseGLB: the input buffer
    pOut,       \* parseGLB: what the call produced ("idle" before the call)
    aIn,        \* getAccessorData: binChunk length, bufferView, accessor
    aOut,       \* getAccessorData: what the call produced
    wIn,        \* writeGLB: optimizedData, options, processedImages, MeshoptEncoder.supported
    pc,         \* writeGLB: where the call stands
    cursor,     \* writeGLB: the loop counters (mesh, prim, attr, image, ref)
    json,       \* writeGLB: the output document under construction
    meshes,     \* writeGLB: meshes, and the mesh and primitive being built
    bufferViews,    \* writeGLB: the bufferViews array
    accessors,      \* writeGLB: the accessors array
    bufferData,     \* writeGLB: byte lengths of the chunks pushed to bufferData
    currentOffset,  \* writeGLB: the running offset
    accessorRemapping,  \* writeGLB: old accessor index -> new accessor index
    emitted,    \* history: for each bufferView pushed, what it was emitted for
    glb,        \* writeGLB: the returned buffer
    fIn,        \* mesh processing: the arguments of the function under call
    fOut        \* mesh processing: what the calls produced

parserVars == <<pIn, pOut, aIn, aOut, fIn, fOut>>
writerVars == <<wIn, pc, cursor, json, meshes, bufferViews, accessors, bufferData,
                currentOffset, accessorRemapping, emitted, glb>>
vars == <<pIn, pOut, aIn, aOut, wIn, pc, cursor, json, meshes, bufferViews, accessors,
          bufferData, currentOffset, accessorRemapping, emitted, glb, fIn, fOut>>

Max(a, b) == IF a >= b THEN a ELSE b
Min(a, b) == IF a <= b THEN a ELSE b

RECURSIVE SeqsUpTo(_, _)
SeqsUpTo(S, n) ==
    IF n = 0 THEN {<< >>}
    ELSE LET shorter == SeqsUpTo(S, n - 1)
         IN  shorter \cup {Append(s, x) : s \in {t \in shorter : Len(t) = n - 1}, x \in S}

(***************************************************************************)
(* glb-parser.js: constants                                                *)
(***************************************************************************)
GLB_MAGIC == 1179937895          \* 0x46546C67, 'glTF'
GLB_VERSION == 2
CHUNK_JSON == 1313821514         \* 0x4E4F534A
CHUNK_BIN == 5130562             \* 0x004E4942
HEADER_SIZE == 12
CHUNK_HEADER_SIZE == 8

GL_BYTE == 5120
GL_UNSIGNED_BYTE == 5121
GL_SHORT == 5122
GL_UNSIGNED_SHORT == 5123
GL_UNSIGNED_INT == 5125
GL_FLOAT == 5126

COMPONENT_SIZE(componentType) ==
    CASE componentType = GL_BYTE -> 1
      [] componentType = GL_UNSIGNED_BYTE -> 1
      [] componentType = GL_SHORT -> 2
      [] componentType = GL_UNSIGNED_SHORT -> 2
      [] componentType = GL_UNSIGNED_INT -> 4
      [] componentType = GL_FLOAT -> 4

TYPE_COMPONENTS(type) ==
    CASE type = "SCALAR" -> 1
      [] type = "VEC2" -> 2
      [] type = "VEC3" -> 3
      [] type = "VEC4" -> 4
      [] type = "MAT2" -> 4
      [] type = "MAT3" -> 9
      [] type = "MAT4" -> 16

(***************************************************************************)
(* parseGLB.  The input buffer is                                          *)
(*   [byteLength, magic, version, totalLength, chunks]                     *)
(* where chunks lists the chunk headers in the order the parser's walk     *)
(* meets them (the walk itself fixes their offsets) and byteLength says    *)
(* how many bytes of that layout really exist.  A JSON chunk's payload is  *)
(* a text of textLen bytes followed by padding; kind says what JSON.parse  *)
(* makes of the complete text.                                             *)
(***************************************************************************)

\* (offset + 3) & ~3: for 0 <= offset < 2^31 - 3 the int32 arithmetic is exact
Align4(offset) == ((offset + 3) \div 4) * 4

\* buffer.slice(offset + 8, offset + 8 + chunkLength) clamps to the buffer's end
SliceLength(in, offset, chunkLength) ==
    Max(0, Min(chunkLength, in.byteLength - (offset + CHUNK_HEADER_SIZE)))

NoJson == [set |-> FALSE, truthy |-> FALSE, chunk |-> 0, byteLength |-> 0, doc |-> << >>]
NoBin == [set |-> FALSE, chunk |-> 0, byteLength |-> 0]

Thrown(name) == [status |-> "error", error |-> name, json |-> NoJson, binChunk |-> NoBin]

\* One iteration of the while loop (lines 77-93) and the rest of the walk.
RECURSIVE ParseChunks(_, _, _, _, _)
ParseChunks(in, k, offset, parsedJson, binChunk) ==
    IF ~(offset < in.totalLength)
    THEN [status |-> "walked", error |-> "none", json |-> parsedJson, binChunk |-> binChunk]
    ELSE IF offset + CHUNK_HEADER_SIZE > in.byteLength
    THEN Thrown("RangeError")                    \* view.getUint32 past the end
    ELSE LET c == in.chunks[k]
             got == SliceLength(in, offset, c.length)
             next == Align4(offset + CHUNK_HEADER_SIZE + c.length)
         IN  IF c.type = CHUNK_JSON
             THEN IF c.kind = "invalid" \/ got < c.textLen
                  THEN Thrown("SyntaxError")     \* JSON.parse
                  ELSE ParseChunks(in, k + 1, next,
                           [set |-> TRUE, truthy |-> c.kind = "object", chunk |-> k,
                            byteLength |-> got, doc |-> c.doc],
                           binChunk)
             ELSE IF c.type = CHUNK_BIN
             THEN ParseChunks(in, k + 1, next, parsedJson,
                           [set |-> TRUE, chunk |-> k, byteLength |-> got])
             ELSE ParseChunks(in, k + 1, next, parsedJson, binChunk)

\* HeaderError without its version check (lines 65-68 dropped).
HeaderErrorNoVersion(in) ==
    IF in.byteLength < 4 THEN "RangeError"
    ELSE IF in.magic # GLB_MAGIC THEN "BadMagic"
    ELSE IF in.byteLength < HEADER_SIZE THEN "RangeError"
    ELSE "none"

\* Lines 57-70: the three header reads and the two checks, in order.
HeaderError(in) ==
    IF in.byteLength < 4 THEN "RangeError"
    ELSE IF in.magic # GLB_MAGIC THEN "BadMagic"
    ELSE IF in.byteLength < 8 THEN "RangeError"
    ELSE IF in.version # GLB_VERSION THEN "UnsupportedVersion"
    ELSE IF in.byteLength < HEADER_SIZE THEN "RangeError"
    ELSE "none"

parseGLB(in) ==
    IF HeaderError(in) # "none" THEN Thrown(HeaderError(in))
    ELSE LET w == ParseChunks(in, 1, HEADER_SIZE, NoJson, NoBin)
         IN  IF w.status = "error" THEN w
             ELSE IF ~(w.json.set /\ w.json.truthy) THEN Thrown("MissingJsonChunk")
             ELSE [status |-> "ok", error |-> "none", json |-> w.json, binChunk |-> w.binChunk]

(***************************************************************************)
(* getAccessorData (lines 108-143).  aIn = [binLength, bufferView,         *)
(* accessor]; byteOffset and byteStride 0 stand for an absent field, which *)
(* is what `|| 0` and `!bufferView.byteStride` make of them.  The result   *)
(* records the half-open range [readFrom, readTo) of binChunk bytes that   *)
(* the returned elements were read from.                                   *)
(***************************************************************************)
AccessorThrown == [status |-> "error", readFrom |-> 0, readTo |-> 0, length |-> 0]

\* new TypedArrayConstructor(binChunk, byteOffset, length): a view, or RangeError
TypedArrayView(binLength, byteOffset, length, componentSize) ==
    IF byteOffset % componentSize # 0 \/ byteOffset + length * componentSize > binLength
    THEN AccessorThrown
    ELSE [status |-> "ok", readFrom |-> byteOffset,
          readTo |-> byteOffset + length * componentSize, length |-> length]

\* Lines 131-142: the gather copy; DataView reads throw past the end of binChunk
StridedCopy(binLength, byteOffset, byteStride, count, numComponents, componentSize) ==
    LET elementSize == componentSize * numComponents
        lastEnd == byteOffset + (count - 1) * byteStride + elementSize
    IN  IF count = 0
        THEN [status |-> "ok", readFrom |-> byteOffset, readTo |-> byteOffset, length |-> 0]
        ELSE IF \E i \in 0..(count - 1) :
                    byteOffset + i * byteStride + elementSize > binLength
        THEN AccessorThrown
        ELSE [status |-> "ok", readFrom |-> byteOffset, readTo |-> lastEnd,
              length |-> count * numComponents]

getAccessorData(binLength, bufferView, accessor) ==
    LET componentSize == COMPONENT_SIZE(accessor.componentType)
        numComponents == TYPE_COMPONENTS(accessor.type)
        elementSize == componentSize * numComponents
        byteOffset == bufferView.byteOffset + accessor.byteOffset
        byteStride == IF bufferView.byteStride # 0 THEN bufferView.byteStride ELSE elementSize
    IN  IF bufferView.byteStride = 0 \/ bufferView.byteStride = elementSize
        THEN TypedArrayView(binLength, byteOffset, accessor.count * numComponents, componentSize)
        ELSE StridedCopy(binLength, byteOffset, byteStride, accessor.count,
                         numComponents, componentSize)

(***************************************************************************)
(* Inputs of the parser specification.                                     *)
(***************************************************************************)
MaxChunks == 3          \* chunks in an input buffer
MaxChunkLen == 4        \* declared length of a chunk
MaxTruncation == 5      \* bytes missing at the end of the buffer

EmptyDoc == << >>

ChunkTemplates ==
    {[type |-> CHUNK_JSON, length |-> MaxChunkLen, kind |-> "object", textLen |-> 2, doc |-> EmptyDoc],
     [type |-> CHUNK_JSON, length |-> MaxChunkLen - 1, kind |-> "object",
      textLen |-> MaxChunkLen - 1, doc |-> EmptyDoc],
     [type |-> CHUNK_JSON, length |-> MaxChunkLen, kind |-> "falsy",
      textLen |-> MaxChunkLen, doc |-> EmptyDoc],
     [type |-> CHUNK_JSON, length |-> MaxChunkLen, kind |-> "invalid",
      textLen |-> MaxChunkLen, doc |-> EmptyDoc]}
    \cup {[type |-> CHUNK_BIN, length |-> n, kind |-> "bytes", textLen |-> 0, doc |-> EmptyDoc] :
             n \in {0, MaxChunkLen - 1, MaxChunkLen}}
    \cup {[type |-> 0, length |-> MaxChunkLen, kind |-> "bytes", textLen |-> 0, doc |-> EmptyDoc]}

\* Offset of chunk k's header when the walk starts at 12 (k = Len + 1: where the walk ends)
RECURSIVE ChunkOffset(_, _)
ChunkOffset(chunks, k) ==
    IF k = 1 THEN HEADER_SIZE
    ELSE Align4(ChunkOffset(chunks, k - 1) + CHUNK_HEADER_SIZE + chunks[k - 1].length)

\* End of the last chunk's payload: the length of the untruncated buffer
PayloadEnd(chunks) ==
    IF chunks = << >> THEN HEADER_SIZE
    ELSE ChunkOffset(chunks, Len(chunks)) + CHUNK_HEADER_SIZE + chunks[Len(chunks)].length

\* A buffer whose layout is the given chunks, cut short by `cut` bytes; the
\* header's totalLength is the real length, the untruncated length (aligned or
\* not), or the bare header's.
ParseInput(chunks, cut, magic, version, total) ==
    [byteLength |-> PayloadEnd(chunks) - cut, magic |-> magic, version |-> version,
     totalLength |-> CASE total = "header" -> HEADER_SIZE
                       [] total = "real" -> PayloadEnd(chunks) - cut
                       [] total = "payload" -> PayloadEnd(chunks)
                       [] total = "aligned" -> Align4(PayloadEnd(chunks)),
     chunks |-> chunks]

TotalLengthModes == {"header", "real", "payload", "aligned"}
Magics == {GLB_MAGIC, 0}
Versions == {1, GLB_VERSION, 3}

Idle == [status |-> "idle"]

(***************************************************************************)
(* Inputs of the accessor specification: a binChunk of MaxBin bytes, a     *)
(* bufferView that lies within it, and an accessor of that bufferView.     *)
(***************************************************************************)
MaxBin == 16            \* bytes in the BIN chunk
MaxCount == 3           \* elements of an accessor

AccessorInput(vo, vl, vs, ao, n, ct, ty) ==
    [binLength |-> MaxBin,
     bufferView |-> [byteOffset |-> vo, byteLength |-> vl, byteStride |-> vs],
     accessor |-> [byteOffset |-> ao, count |-> n, componentType |-> ct, type |-> ty]]

NoParseInput == [byteLength |-> 0, magic |-> 0, version |-> 0, totalLength |-> 0, chunks |-> << >>]
NoAccessorInput == [binLength |-> 0]

\* The writer's variables in the specifications that never call writeGLB
WriterIdle ==
    /\ wIn = << >>
    /\ pc = "idle"
    /\ cursor = << >>
    /\ json = << >>
    /\ meshes = << >>
    /\ bufferViews = << >>
    /\ accessors = << >>
    /\ bufferData = << >>
    /\ currentOffset = 0
    /\ accessorRemapping = {}
    /\ emitted = << >>
    /\ glb = << >>

\* The mesh-processing variables in the specifications that call none of them
NoMeshCall ==
    /\ fIn = << >>
    /\ fOut = << >>

(***************************************************************************)
(* SpecParse: one call of parseGLB on an arbitrary buffer.                 *)
(***************************************************************************)
InitParse ==
    /\ \E chunks \in SeqsUpTo(ChunkTemplates, MaxChunks), magic \in Magics,
          version \in Versions :
          \/ \E cut \in 0..Min(MaxTruncation, HEADER_SIZE), total \in TotalLengthModes :
                pIn = ParseInput(chunks, cut, magic, version, total)
          \/ /\ chunks = << >>       \* buffers shorter than the header
             /\ \E n \in {0, 4, 8} :
                   pIn = [byteLength |-> n, magic |-> magic, version |-> version,
                          totalLength |-> HEADER_SIZE, chunks |-> << >>]
    /\ pOut = Idle
    /\ aIn = NoAccessorInput
    /\ aOut = Idle
    /\ WriterIdle
    /\ NoMeshCall

CallParseGLB ==
    /\ pOut.status = "idle"
    /\ pOut' = parseGLB(pIn)
    /\ UNCHANGED <<pIn, aIn, aOut, fIn, fOut>>
    /\ UNCHANGED writerVars

NextParse == CallParseGLB

SpecParse == InitParse /\ [][NextParse]_vars

(***************************************************************************)
(* SpecAccessor: one call of getAccessorData.                              *)
(***************************************************************************)
InitAccessor ==
    /\ \E vo \in {0, 4}, vl \in {8, 12}, vs \in {0, 4, 8}, ao \in {0, 2, 4}, n \in 0..MaxCount,
          ct \in {GL_UNSIGNED_BYTE, GL_UNSIGNED_SHORT, GL_FLOAT}, ty \in {"SCALAR", "VEC2"} :
          aIn = AccessorInput(vo, vl, vs, ao, n, ct, ty)
    /\ aOut = Idle
    /\ pIn = NoParseInput
    /\ pOut = Idle
    /\ WriterIdle
    /\ NoMeshCall

CallGetAccessorData ==
    /\ aOut.status = "idle"
    /\ aOut' = getAccessorData(aIn.binLength, aIn.bufferView, aIn.accessor)
    /\ UNCHANGED <<pIn, pOut, aIn, fIn, fOut>>
    /\ UNCHANGED writerVars

NextAccessor == CallGetAccessorData

SpecAccessor == InitAccessor /\ [][NextAccessor]_vars

(***************************************************************************)
(* Properties of parseGLB (under SpecParse)                                *)
(***************************************************************************)
HasJsonChunk(in) == \E k \in 1..Len(in.chunks) : in.chunks[k].type = CHUNK_JSON

WellFormedHeader(in) ==
    /\ in.byteLength >= 4
    /\ in.magic = GLB_MAGIC
    /\ in.version = GLB_VERSION

\* C1: parseGLB returns an asset only if the first four bytes are the magic
\* 0x46546C67, the version field is 2 and a JSON chunk is present; on every
\* other input it throws and returns neither a JSON document nor a BIN blob.
C1_ParseAcceptsOnlyWellFormed ==
    pOut.status # "idle" =>
        /\ pOut.status \in {"ok", "error"}
        /\ pOut.status = "ok" => WellFormedHeader(pIn) /\ HasJsonChunk(pIn) /\ pOut.json.set
        /\ ~(WellFormedHeader(pIn) /\ HasJsonChunk(pIn)) =>
               /\ pOut.status = "error"
               /\ pOut.json = NoJson
               /\ pOut.binChunk = NoBin

\* C1 witness: a complete buffer with the right magic and a JSON chunk, but
\* version 3, has been rejected as an unsupported version.
C1_Witness ==
    /\ pOut.status = "error"
    /\ pOut.error = "UnsupportedVersion"
    /\ pIn.magic = GLB_MAGIC
    /\ pIn.version = 3
    /\ HasJsonChunk(pIn)
    /\ pIn.byteLength = PayloadEnd(pIn.chunks)

\* Chunk k is met by the walk: every header up to it starts below totalLength
Walked(in, k) == \A j \in 1..k : ChunkOffset(in.chunks, j) < in.totalLength

\* Some chunk the walk meets declares more payload than the buffer holds
TruncatedChunk(in) ==
    \E k \in 1..Len(in.chunks) :
        /\ Walked(in, k)
        /\ ChunkOffset(in.chunks, k) + CHUNK_HEADER_SIZE + in.chunks[k].length > in.byteLength

\* C2: parseGLB throws on every input in which a chunk's declared length extends
\* past the end of the input bytes, and never returns an asset whose BIN blob or
\* JSON text is shorter than the length declared in its chunk header.
C2_TruncatedChunkRejected ==
    pOut.status # "idle" =>
        /\ TruncatedChunk(pIn) => pOut.status = "error"
        /\ pOut.status = "ok" =>
              /\ pOut.json.byteLength = pIn.chunks[pOut.json.chunk].length
              /\ pOut.binChunk.set =>
                    pOut.binChunk.byteLength = pIn.chunks[pOut.binChunk.chunk].length

(***************************************************************************)
(* Properties of getAccessorData (under SpecAccessor)                      *)
(***************************************************************************)
ElementSize(accessor) == COMPONENT_SIZE(accessor.componentType) * TYPE_COMPONENTS(accessor.type)

\* byteOffset + count * stride of the data model's accessor invariant
AccessorSpan(bufferView, accessor) ==
    accessor.byteOffset
        + accessor.count * (IF bufferView.byteStride # 0 THEN bufferView.byteStride
                            ELSE ElementSize(accessor))

\* C3: getAccessorData throws for every accessor whose span byteOffset +
\* count * stride exceeds the byteLength of its bufferView, and never returns
\* elements read from bytes outside the accessor's own bufferView.
C3_AccessorOutOfRangeRejected ==
    aOut.status # "idle" =>
        /\ AccessorSpan(aIn.bufferView, aIn.accessor) > aIn.bufferView.byteLength =>
               aOut.status = "error"
        /\ aOut.status = "ok" /\ aOut.length > 0 =>
               /\ aOut.readFrom >= aIn.bufferView.byteOffset
               /\ aOut.readTo <= aIn.bufferView.byteOffset + aIn.bufferView.byteLength

(***************************************************************************)
(* writeGLB (src/src/glb-writer.js, lines 18-503): its inputs.             *)
(*                                                                         *)
(* A typed array is its element count and its byteLength.  Primitives are  *)
(* the optimized primitives optimizeGLB hands over, in getAllPrimitives    *)
(* order (mesh index, then primitive index).  originalJSON holds the       *)
(* accessors of those primitives first (indices, then each attribute) and  *)
(* then three accessors no mesh uses, for animations and skins.            *)
(***************************************************************************)
MaxPrims == 2           \* primitives handed to writeGLB
MaxImages == 2          \* images of the original asset
MaxSamplers == 1        \* samplers of the original animation
MaxEncodedLen == 1      \* byteLength of a buffer the encoder returns
MaxJsonLen == 5         \* byteLength of the serialized JSON document
MaxParts == 3           \* primitives, images, samplers and skins of one asset

TARGET_ARRAY_BUFFER == 34962
TARGET_ELEMENT_ARRAY_BUFFER == 34963
MAX_VERTEX_STRIDE == 256
JSON_PAD == 32          \* 0x20
BIN_PAD == 0

Absent == [present |-> FALSE, list |-> << >>]
Present(list) == [present |-> TRUE, list |-> list]

\* An attribute of an optimized primitive: data is a typed array of count *
\* components elements of dataElementSize bytes each
Attr(name, componentType, type, count, dataElementSize) ==
    [name |-> name, componentType |-> componentType, type |-> type, count |-> count,
     byteLength |-> count * TYPE_COMPONENTS(type) * dataElementSize]

\* Three vertices, one triangle: 16-bit positions, 8-bit normals, 16-bit UVs
PrimA(meshIndex, primitiveIndex) ==
    [meshIndex |-> meshIndex, primitiveIndex |-> primitiveIndex,
     indices |-> [count |-> 3, byteLength |-> 3, componentType |-> GL_UNSIGNED_BYTE],
     attributes |-> <<Attr("POSITION", GL_SHORT, "VEC3", 3, 2),
                      Attr("NORMAL", GL_BYTE, "VEC3", 3, 1),
                      Attr("TEXCOORD_0", GL_UNSIGNED_SHORT, "VEC2", 3, 2)>>]

\* One vertex drawn as a point (default indices [0]): 8-bit positions and a
\* passed-through COLOR_0 whose data the optimizer remapped into a Float32Array
PrimB(meshIndex, primitiveIndex) ==
    [meshIndex |-> meshIndex, primitiveIndex |-> primitiveIndex,
     indices |-> [count |-> 1, byteLength |-> 1, componentType |-> GL_UNSIGNED_BYTE],
     attributes |-> <<Attr("POSITION", GL_BYTE, "VEC3", 1, 1),
                      Attr("COLOR_0", GL_UNSIGNED_BYTE, "VEC3", 1, 4)>>]

PrimShapes == {"A", "B"}

\* shapes: a sequence of shapes; split[i]: primitive i opens a new mesh
RECURSIVE PrimitivesOf(_, _)
PrimitivesOf(shapes, split) ==
    IF shapes = << >> THEN << >>
    ELSE LET n == Len(shapes)
             before == PrimitivesOf(SubSeq(shapes, 1, n - 1), SubSeq(split, 1, n - 1))
             last == IF n = 1 THEN [meshIndex |-> -1, primitiveIndex |-> 0] ELSE before[n - 1]
             meshIndex == IF n = 1 \/ split[n] THEN last.meshIndex + 1 ELSE last.meshIndex
             primitiveIndex == IF n = 1 \/ split[n] THEN 0 ELSE last.primitiveIndex + 1
         IN  Append(before, IF shapes[n] = "A" THEN PrimA(meshIndex, primitiveIndex)
                            ELSE PrimB(meshIndex, primitiveIndex))

\* Number of original accessors the primitives before primitive i use
RECURSIVE MeshAccessorBase(_, _)
MeshAccessorBase(primitives, i) ==
    IF i = 1 THEN 0
    ELSE MeshAccessorBase(primitives, i - 1) + 1 + Len(primitives[i - 1].attributes)

MeshAccessorCount(primitives) == MeshAccessorBase(primitives, Len(primitives) + 1)

\* originalJSON.meshes: per mesh, per primitive, the accessor indices it uses
OriginalMeshes(primitives) ==
    LET meshCount == IF primitives = << >> THEN 0
                     ELSE primitives[Len(primitives)].meshIndex + 1
        PrimEntry(i) ==
            [indices |-> MeshAccessorBase(primitives, i),
             attributes |-> [a \in 1..Len(primitives[i].attributes) |->
                                MeshAccessorBase(primitives, i) + a]]
        Positions == [i \in 1..Len(primitives) |-> i]
    IN  [m \in 1..meshCount |->
            LET mine == SelectSeq(Positions, LAMBDA i : primitives[i].meshIndex = m - 1)
            IN  [primitives |-> [j \in 1..Len(mine) |-> PrimEntry(mine[j])]]]

\* The accessors no mesh uses: keyframe times, 8-bit weights, bind matrices
ExtraAccessors ==
    <<[componentType |-> GL_FLOAT, type |-> "SCALAR", count |-> 2],
      [componentType |-> GL_UNSIGNED_BYTE, type |-> "SCALAR", count |-> 3],
      [componentType |-> GL_FLOAT, type |-> "MAT4", count |-> 1]>>

OriginalAccessors(primitives) ==
    [i \in 1..(MeshAccessorCount(primitives) + Len(ExtraAccessors)) |->
        IF i <= MeshAccessorCount(primitives)
        THEN [componentType |-> GL_FLOAT, type |-> "SCALAR", count |-> 0]
        ELSE ExtraAccessors[i - MeshAccessorCount(primitives)]]

\* Index (0-based) of the e-th extra accessor
Extra(primitives, e) == MeshAccessorCount(primitives) + e - 1

\* Samplers an animation may hold: both accessors free of meshes, one accessor
\* used twice, or (when there is a mesh) the input shared with a primitive
SamplerChoices(primitives) ==
    {[input |-> Extra(primitives, 1), output |-> Extra(primitives, 2)],
     [input |-> Extra(primitives, 1), output |-> Extra(primitives, 1)]}
    \cup (IF primitives = << >> THEN {}
          ELSE {[input |-> 0, output |-> Extra(primitives, 2)]})

\* Skins: none, one without inverseBindMatrices, or one or two sharing them
SkinChoices(primitives) ==
    {Absent,
     Present(<<[inverseBindMatrices |-> -1]>>),
     Present(<<[inverseBindMatrices |-> Extra(primitives, 3)]>>),
     Present(<<[inverseBindMatrices |-> Extra(primitives, 3)],
               [inverseBindMatrices |-> Extra(primitives, 3)]>>)}

ImageKinds == {"bufferView", "uri", "none"}
IMAGE_BYTES == 5        \* byteLength of an original image's bufferView
RESIZED_BYTES == 3      \* byteLength of a resized image

\* originalJSON.images: a bufferView-backed image i uses bufferView i (0-based)
OriginalImages(kinds) ==
    [i \in 1..Len(kinds) |->
        [bufferView |-> IF kinds[i] = "bufferView" THEN i - 1 ELSE -1,
         uri |-> kinds[i] = "uri"]]

\* The asset needs a BIN chunk as soon as anything in it refers to buffer 0
NeedsBin(primitives, images, animations, skins) ==
    \/ primitives # << >>
    \/ \E i \in 1..Len(images.list) : images.list[i].bufferView # -1
    \/ animations.present
    \/ \E i \in 1..Len(skins.list) : skins.list[i].inverseBindMatrices # -1

PartCount(primitives, images, animations, skins) ==
    Len(primitives) + Len(images.list) + Len(skins.list)
        + (IF animations.present THEN Len(animations.list[1].samplers) ELSE 0)

WriterInput(primitives, images, animations, skins, hasBin, meshopt, supported, resized) ==
    [optimizedData |->
        [primitives |-> primitives,
         originalJSON |->
            [meshes |-> OriginalMeshes(primitives),
             accessors |-> IF hasBin THEN OriginalAccessors(primitives) ELSE << >>,
             bufferViews |-> IF hasBin
                             THEN [i \in 1..Len(images.list) |-> [byteLength |-> IMAGE_BYTES]]
                             ELSE << >>,
             images |-> images,
             animations |-> animations,
             skins |-> skins],
         originalBinChunk |-> [present |-> hasBin]],
     options |-> [meshoptCompression |-> meshopt],
     processedImages |-> resized,
     encoderSupported |-> supported]

(***************************************************************************)
(* writeGLB: helpers                                                       *)
(***************************************************************************)
\* Math.ceil(offset / alignment) * alignment
alignTo(offset, alignment) == ((offset + alignment - 1) \div alignment) * alignment

\* The zero-filled chunk pushed when alignedOffset > currentOffset
Padding(offset, alignedOffset) ==
    IF alignedOffset > offset THEN <<alignedOffset - offset>> ELSE << >>

\* Line 20: options.meshoptCompression !== false
UseMeshoptCompression(options) == options.meshoptCompression # "false"

\* Lines 27-35 with the push to extensionsRequired left out
InitialExtensionsUsedOnly(useMeshoptCompression) ==
    [extensionsUsed |-> IF useMeshoptCompression
                        THEN <<"KHR_mesh_quantization", "EXT_meshopt_compression">>
                        ELSE <<"KHR_mesh_quantization">>,
     extensionsRequired |-> <<"KHR_mesh_quantization">>]

\* Lines 27-35
InitialExtensions(useMeshoptCompression) ==
    [extensionsUsed |-> IF useMeshoptCompression
                        THEN <<"KHR_mesh_quantization", "EXT_meshopt_compression">>
                        ELSE <<"KHR_mesh_quantization">>,
     extensionsRequired |-> IF useMeshoptCompression
                            THEN <<"KHR_mesh_quantization", "EXT_meshopt_compression">>
                            ELSE <<"KHR_mesh_quantization">>]

NoExtension == [present |-> FALSE, byteOffset |-> 0, byteLength |-> 0, byteStride |-> 0,
                count |-> 0, mode |-> "none"]

\* Lines 108-122, 218-232: a bufferView of compressed bytes
CompressedView(byteOffset, byteLength, byteStride, count, mode) ==
    [byteOffset |-> byteOffset, byteLength |-> byteLength, target |-> 0,
     extension |-> [present |-> TRUE, byteOffset |-> byteOffset, byteLength |-> byteLength,
                    byteStride |-> byteStride, count |-> count, mode |-> mode]]

\* Lines 141-146, 241-246, 325-329, 405-409: a bufferView of raw bytes
PlainView(byteOffset, byteLength, target) ==
    [byteOffset |-> byteOffset, byteLength |-> byteLength, target |-> target,
     extension |-> NoExtension]

\* Lines 52-58: the Map from meshIndex to its primitives (as positions in
\* primitives), keys in order of first insertion
RECURSIVE GroupByMesh(_, _)
GroupByMesh(primitives, n) ==
    IF n = 0 THEN << >>
    ELSE LET groups == GroupByMesh(primitives, n - 1)
             key == primitives[n].meshIndex
         IN  IF \E g \in 1..Len(groups) : groups[g].meshIndex = key
             THEN [g \in 1..Len(groups) |->
                      IF groups[g].meshIndex = key
                      THEN [groups[g] EXCEPT !.prims = Append(@, n)]
                      ELSE groups[g]]
             ELSE Append(groups, [meshIndex |-> key, prims |-> <<n>>])

Reverse(seq) == [i \in 1..Len(seq) |-> seq[Len(seq) + 1 - i]]

\* meshesByIndex iterated from its last key to its first
meshesByIndexReversed(primitives) == Reverse(GroupByMesh(primitives, Len(primitives)))

meshesByIndex(primitives) == GroupByMesh(primitives, Len(primitives))

\* Line 85
canCompressIndices(in, indexCount) ==
    UseMeshoptCompression(in.options) /\ in.encoderSupported /\ indexCount > 0

\* Lines 198-199
canCompress(in, stride, count) ==
    /\ UseMeshoptCompression(in.options)
    /\ in.encoderSupported
    /\ stride % 4 = 0
    /\ stride <= MAX_VERTEX_STRIDE
    /\ count > 0

\* `if (compressed)` taken to hold whenever the encoder was called
CompressedWheneverCalled(outcome) == outcome >= 0

\* Lines 101, 211: `if (compressed)`, null after a throw
Compressed(outcome) == outcome > 0

\* What MeshoptEncoder does with one buffer: 0 = it throws, n > 0 = it returns
\* n bytes; no call is made when the buffer cannot be compressed
EncoderOutcomes(can) == IF can THEN {0, MaxEncodedLen} ELSE {-1}

\* Lines 345-360 (no primitive of the model has morph targets)
meshAccessorIndices(originalJSON) ==
    LET OfPrimitive(prim) ==
            {prim.indices} \cup {prim.attributes[a] : a \in 1..Len(prim.attributes)}
        OfMesh(mesh) ==
            UNION {OfPrimitive(mesh.primitives[q]) : q \in 1..Len(mesh.primitives)}
    IN  UNION {OfMesh(originalJSON.meshes[m]) : m \in 1..Len(originalJSON.meshes)}

RECURSIVE Flatten(_)
Flatten(seqs) == IF seqs = << >> THEN << >> ELSE Head(seqs) \o Flatten(Tail(seqs))

\* Lines 363-382: the accessor indices copyAccessor is considered for, in order
CopyCandidates(originalJSON) ==
    Flatten([a \in 1..Len(originalJSON.animations.list) |->
               Flatten([k \in 1..Len(originalJSON.animations.list[a].samplers) |->
                          <<originalJSON.animations.list[a].samplers[k].input,
                            originalJSON.animations.list[a].samplers[k].output>>])])
    \o SelectSeq([k \in 1..Len(originalJSON.skins.list) |->
                     originalJSON.skins.list[k].inverseBindMatrices],
                 LAMBDA idx : idx # -1)

\* accessorRemapping.has / .get
RemapHas(remapping, idx) == \E e \in remapping : e.old = idx
RemapGet(remapping, idx) == (CHOOSE e \in remapping : e.old = idx).new

\* copyAccessor without its first line: an accessor is copied at every reference
AlreadyCopiedNever(remapping, idx) == FALSE

\* Line 385
AlreadyCopied(remapping, idx) == RemapHas(remapping, idx)

\* Lines 432-437, 444-446: a reference after patching
Patched(remapping, idx) == IF RemapHas(remapping, idx) THEN RemapGet(remapping, idx) ELSE idx

RECURSIVE SumSeq(_)
SumSeq(seq) == IF seq = << >> THEN 0 ELSE Head(seq) + SumSeq(Tail(seq))

\* Line 483 without the BIN chunk's header
GlbTotalLengthNoBinHeader(jsonPaddedLength, binPaddedLength) ==
    HEADER_SIZE + CHUNK_HEADER_SIZE + jsonPaddedLength + binPaddedLength

\* Line 483
GlbTotalLength(jsonPaddedLength, binPaddedLength) ==
    HEADER_SIZE + CHUNK_HEADER_SIZE + jsonPaddedLength + CHUNK_HEADER_SIZE + binPaddedLength

(***************************************************************************)
(* writeGLB: the call, one action per step of its loops                    *)
(***************************************************************************)
Primitives == wIn.optimizedData.primitives
OriginalJSON == wIn.optimizedData.originalJSON
HasBin == wIn.optimizedData.originalBinChunk.present
Groups == meshesByIndex(Primitives)
CurrentPrim == Primitives[Groups[cursor.mesh].prims[cursor.prim]]

\* Append a view and its data at the running offset, aligned
PlaceView(alignment, view, dataLength, tag) ==
    LET alignedOffset == alignTo(currentOffset, alignment)
    IN  /\ bufferData' = bufferData \o Padding(currentOffset, alignedOffset) \o <<dataLength>>
        /\ bufferViews' = Append(bufferViews, [view EXCEPT !.byteOffset = alignedOffset,
                                  !.extension.byteOffset =
                                      IF view.extension.present THEN alignedOffset ELSE 0])
        /\ currentOffset' = alignedOffset + dataLength
        /\ emitted' = Append(emitted, tag)

\* Lines 18-58
BeginWrite ==
    /\ pc = "start"
    /\ json' = [extensionsUsed |->
                    InitialExtensions(UseMeshoptCompression(wIn.options)).extensionsUsed,
                extensionsRequired |->
                    InitialExtensions(UseMeshoptCompression(wIn.options)).extensionsRequired,
                images |-> Absent,
                animations |-> OriginalJSON.animations,
                skins |-> OriginalJSON.skins]
    /\ cursor' = [mesh |-> 1, prim |-> 1, attr |-> 1, image |-> 1, ref |-> 1]
    /\ meshes' = [list |-> << >>, mesh |-> << >>, primitive |-> << >>]
    /\ pc' = "mesh"
    /\ UNCHANGED <<wIn, bufferViews, accessors, bufferData, currentOffset,
                   accessorRemapping, emitted, glb>>
    /\ UNCHANGED parserVars

\* Lines 61-65
BeginMesh ==
    /\ pc = "mesh"
    /\ cursor.mesh <= Len(Groups)
    /\ meshes' = [meshes EXCEPT !.mesh = [primitives |-> << >>]]
    /\ cursor' = [cursor EXCEPT !.prim = 1]
    /\ pc' = "prim"
    /\ UNCHANGED <<wIn, json, bufferViews, accessors, bufferData, currentOffset,
                   accessorRemapping, emitted, glb>>
    /\ UNCHANGED parserVars

\* Lines 67-186: the primitive object and its index view
EmitIndicesForPrim ==
    /\ pc = "prim"
    /\ cursor.prim <= Len(Groups[cursor.mesh].prims)
    /\ LET prim == CurrentPrim
           indexCount == prim.indices.count
           can == canCompressIndices(wIn, indexCount)
       IN  \E outcome \in EncoderOutcomes(can) :
             LET compressed == Compressed(outcome)
                 view == IF compressed
                         THEN CompressedView(0, outcome, 4, indexCount, "TRIANGLES")
                         ELSE PlainView(0, prim.indices.byteLength, TARGET_ELEMENT_ARRAY_BUFFER)
                 dataLength == IF compressed THEN outcome ELSE prim.indices.byteLength
             IN  /\ PlaceView(4, view, dataLength,
                        [phase |-> "indices", meshIndex |-> prim.meshIndex,
                         primitiveIndex |-> prim.primitiveIndex, source |-> 0,
                         outcome |-> outcome, rawLength |-> prim.indices.byteLength,
                         componentType |-> prim.indices.componentType])
                 /\ accessors' = Append(accessors,
                        [bufferView |-> Len(bufferViews),
                         componentType |-> IF compressed THEN GL_UNSIGNED_INT
                                           ELSE prim.indices.componentType,
                         count |-> indexCount, type |-> "SCALAR"])
                 /\ meshes' = [meshes EXCEPT !.primitive =
                                  [indices |-> Len(accessors), attributes |-> << >>]]
    /\ cursor' = [cursor EXCEPT !.attr = 1]
    /\ pc' = "attr"
    /\ UNCHANGED <<wIn, json, accessorRemapping, glb>>
    /\ UNCHANGED parserVars

\* Lines 188-288: one attribute view
EmitAttrForPrim ==
    /\ pc = "attr"
    /\ cursor.attr <= Len(CurrentPrim.attributes)
    /\ LET prim == CurrentPrim
           attr == prim.attributes[cursor.attr]
           componentSize == COMPONENT_SIZE(attr.componentType)
           stride == componentSize * TYPE_COMPONENTS(attr.type)
           can == canCompress(wIn, stride, attr.count)
       IN  \E outcome \in EncoderOutcomes(can) :
             LET compressed == Compressed(outcome)
                 view == IF compressed
                         THEN CompressedView(0, outcome, stride, attr.count, "ATTRIBUTES")
                         ELSE PlainView(0, attr.byteLength, TARGET_ARRAY_BUFFER)
                 dataLength == IF compressed THEN outcome ELSE attr.byteLength
             IN  /\ PlaceView(IF compressed THEN 4 ELSE componentSize, view, dataLength,
                        [phase |-> "attribute", meshIndex |-> prim.meshIndex,
                         primitiveIndex |-> prim.primitiveIndex, source |-> cursor.attr,
                         outcome |-> outcome, rawLength |-> attr.byteLength,
                         componentType |-> attr.componentType])
                 /\ accessors' = Append(accessors,
                        [bufferView |-> Len(bufferViews), componentType |-> attr.componentType,
                         count |-> attr.count, type |-> attr.type])
                 /\ meshes' = [meshes EXCEPT !.primitive.attributes =
                                  Append(@, [name |-> attr.name, accessor |-> Len(accessors)])]
    /\ cursor' = [cursor EXCEPT !.attr = @ + 1]
    /\ UNCHANGED <<wIn, pc, json, accessorRemapping, glb>>
    /\ UNCHANGED parserVars

\* Line 290
EndPrimitive ==
    /\ pc = "attr"
    /\ cursor.attr > Len(CurrentPrim.attributes)
    /\ meshes' = [meshes EXCEPT !.mesh.primitives = Append(@, meshes.primitive)]
    /\ cursor' = [cursor EXCEPT !.prim = @ + 1]
    /\ pc' = "prim"
    /\ UNCHANGED <<wIn, json, bufferViews, accessors, bufferData, currentOffset,
                   accessorRemapping, emitted, glb>>
    /\ UNCHANGED parserVars

\* Line 293
EndMesh ==
    /\ pc = "prim"
    /\ cursor.prim > Len(Groups[cursor.mesh].prims)
    /\ meshes' = [meshes EXCEPT !.list = Append(@, meshes.mesh)]
    /\ cursor' = [cursor EXCEPT !.mesh = @ + 1]
    /\ pc' = "mesh"
    /\ UNCHANGED <<wIn, json, bufferViews, accessors, bufferData, currentOffset,
                   accessorRemapping, emitted, glb>>
    /\ UNCHANGED parserVars

\* Lines 296-301: all meshes are out; json.images = [] when there are images and a BIN chunk
BeginImages ==
    /\ pc = "mesh"
    /\ cursor.mesh > Len(Groups)
    /\ json' = [json EXCEPT !.images =
                   IF OriginalJSON.images.present /\ HasBin THEN Present(<< >>) ELSE @]
    /\ cursor' = [cursor EXCEPT !.image = 1]
    /\ pc' = IF OriginalJSON.images.present /\ HasBin THEN "images" ELSE "animations"
    /\ UNCHANGED <<wIn, meshes, bufferViews, accessors, bufferData, currentOffset,
                   accessorRemapping, emitted, glb>>
    /\ UNCHANGED parserVars

\* Lines 302-341: one image
EmitImage ==
    /\ pc = "images"
    /\ cursor.image <= Len(OriginalJSON.images.list)
    /\ LET origImage == OriginalJSON.images.list[cursor.image]
           i == cursor.image - 1
           byteLength == IF wIn.processedImages.present /\ i \in wIn.processedImages.has
                         THEN wIn.processedImages.byteLength
                         ELSE OriginalJSON.bufferViews[origImage.bufferView + 1].byteLength
       IN  IF origImage.bufferView # -1
           THEN /\ PlaceView(4, PlainView(0, byteLength, 0), byteLength,
                       [phase |-> "image", meshIndex |-> -1, primitiveIndex |-> -1,
                        source |-> i, outcome |-> -1, rawLength |-> byteLength,
                        componentType |-> 0])
                /\ json' = [json EXCEPT !.images.list =
                               Append(@, [bufferView |-> Len(bufferViews), uri |-> FALSE])]
           ELSE /\ json' = [json EXCEPT !.images.list =
                               IF origImage.uri THEN Append(@, origImage) ELSE @]
                /\ UNCHANGED <<bufferViews, bufferData, currentOffset, emitted>>
    /\ cursor' = [cursor EXCEPT !.image = @ + 1]
    /\ UNCHANGED <<wIn, pc, meshes, accessors, accessorRemapping, glb>>
    /\ UNCHANGED parserVars

\* Line 342: the image loop ends
EndImages ==
    /\ pc = "images"
    /\ cursor.image > Len(OriginalJSON.images.list)
    /\ pc' = "animations"
    /\ UNCHANGED <<wIn, cursor, json, meshes, bufferViews, accessors, bufferData,
                   currentOffset, accessorRemapping, emitted, glb>>
    /\ UNCHANGED parserVars

\* Line 344: animations and skins are carried over only with a BIN chunk
BeginAnimationsAndSkins ==
    /\ pc = "animations"
    /\ cursor' = [cursor EXCEPT !.ref = 1]
    /\ pc' = IF (OriginalJSON.animations.present \/ OriginalJSON.skins.present) /\ HasBin
             THEN "copy" ELSE "finalize"
    /\ UNCHANGED <<wIn, json, meshes, bufferViews, accessors, bufferData,
                   currentOffset, accessorRemapping, emitted, glb>>
    /\ UNCHANGED parserVars

\* Lines 363-427: one sampler input, sampler output or inverseBindMatrices
CopyAccessorStep ==
    /\ pc = "copy"
    /\ cursor.ref <= Len(CopyCandidates(OriginalJSON))
    /\ LET origAccIdx == CopyCandidates(OriginalJSON)[cursor.ref]
           origAccessor == OriginalJSON.accessors[origAccIdx + 1]
           componentSize == COMPONENT_SIZE(origAccessor.componentType)
           byteLength == origAccessor.count * componentSize * TYPE_COMPONENTS(origAccessor.type)
       IN  IF origAccIdx \notin meshAccessorIndices(OriginalJSON)
              /\ ~AlreadyCopied(accessorRemapping, origAccIdx)
           THEN /\ PlaceView(componentSize, PlainView(0, byteLength, 0), byteLength,
                       [phase |-> "copy", meshIndex |-> -1, primitiveIndex |-> -1,
                        source |-> origAccIdx, outcome |-> -1, rawLength |-> byteLength,
                        componentType |-> origAccessor.componentType])
                /\ accessors' = Append(accessors,
                       [bufferView |-> Len(bufferViews),
                        componentType |-> origAccessor.componentType,
                        count |-> origAccessor.count, type |-> origAccessor.type])
                /\ accessorRemapping' =
                       {e \in accessorRemapping : e.old # origAccIdx}
                           \cup {[old |-> origAccIdx, new |-> Len(accessors)]}
           ELSE UNCHANGED <<bufferViews, bufferData, currentOffset, emitted, accessors,
                            accessorRemapping>>
    /\ cursor' = [cursor EXCEPT !.ref = @ + 1]
    /\ UNCHANGED <<wIn, pc, json, meshes, glb>>
    /\ UNCHANGED parserVars

\* Lines 429-448: the copied document's references are patched
PatchReferences ==
    /\ pc = "copy"
    /\ cursor.ref > Len(CopyCandidates(OriginalJSON))
    /\ json' = [json EXCEPT
           !.animations.list =
               [a \in 1..Len(@) |->
                   [samplers |-> [k \in 1..Len(@[a].samplers) |->
                       [input |-> Patched(accessorRemapping, @[a].samplers[k].input),
                        output |-> Patched(accessorRemapping, @[a].samplers[k].output)]]]],
           !.skins.list =
               [k \in 1..Len(@) |->
                   [inverseBindMatrices |->
                       IF @[k].inverseBindMatrices # -1
                       THEN Patched(accessorRemapping, @[k].inverseBindMatrices)
                       ELSE -1]]]
    /\ pc' = "finalize"
    /\ UNCHANGED <<wIn, cursor, meshes, bufferViews, accessors, bufferData,
                   currentOffset, accessorRemapping, emitted, glb>>
    /\ UNCHANGED parserVars

\* Lines 451-502: the document is serialized (to some jsonLength bytes) and the
\* container assembled
Finalize ==
    /\ pc = "finalize"
    /\ \E jsonLength \in (MaxJsonLen - 1)..MaxJsonLen :
          LET jsonPaddedLength == alignTo(jsonLength, 4)
              binPaddedLength == alignTo(currentOffset, 4)
              totalLength == GlbTotalLength(jsonPaddedLength, binPaddedLength)
              doc == [extensionsUsed |-> json.extensionsUsed,
                      extensionsRequired |-> json.extensionsRequired,
                      meshes |-> Present(meshes.list),
                      accessors |-> accessors,
                      bufferViews |-> bufferViews,
                      buffers |-> <<[byteLength |-> currentOffset]>>,
                      images |-> json.images,
                      animations |-> json.animations,
                      skins |-> json.skins]
          IN  glb' = [byteLength |-> totalLength,
                      magic |-> GLB_MAGIC,
                      version |-> GLB_VERSION,
                      totalLength |-> totalLength,
                      chunks |-> <<[type |-> CHUNK_JSON, length |-> jsonPaddedLength,
                                    kind |-> "object", textLen |-> jsonLength, doc |-> doc,
                                    padByte |-> JSON_PAD],
                                   [type |-> CHUNK_BIN, length |-> binPaddedLength,
                                    kind |-> "bytes", textLen |-> SumSeq(bufferData),
                                    doc |-> << >>, padByte |-> BIN_PAD]>>]
    /\ pc' = "done"
    /\ UNCHANGED <<wIn, cursor, json, meshes, bufferViews, accessors, bufferData,
                   currentOffset, accessorRemapping, emitted>>
    /\ UNCHANGED parserVars

\* The written buffer is parsed back (glb-parser.js, parseGLB)
ParseOutput ==
    /\ pc = "done"
    /\ pIn' = glb
    /\ pOut' = parseGLB(glb)
    /\ pc' = "parsed"
    /\ UNCHANGED <<aIn, aOut, fIn, fOut>>
    /\ UNCHANGED <<wIn, cursor, json, meshes, bufferViews, accessors, bufferData,
                   currentOffset, accessorRemapping, emitted, glb>>

(***************************************************************************)
(* Spec: one call of writeGLB on an optimized asset, then parseGLB on the  *)
(* buffer it returned.                                                     *)
(***************************************************************************)
\* options.meshoptCompression and MeshoptEncoder.supported
Configs ==
    {[meshopt |-> "undefined", supported |-> TRUE],
     [meshopt |-> "false", supported |-> TRUE],
     [meshopt |-> "true", supported |-> FALSE]}

\* Where a new mesh starts: the first primitive always opens one
Splits(n) == {split \in [1..n -> BOOLEAN] : n >= 1 => split[1]}

ImageLists == {Absent} \cup {Present(OriginalImages(kinds)) : kinds \in SeqsUpTo(ImageKinds, MaxImages)}

AnimationLists(primitives) ==
    {Absent} \cup {Present(<<[samplers |-> samplers]>>) :
                     samplers \in SeqsUpTo(SamplerChoices(primitives), MaxSamplers) \ {<< >>}}

\* processedImages: null, or a Map holding a resized copy of every bufferView image
NoResize == [present |-> FALSE, has |-> {}, byteLength |-> 0]
ResizeChoices(images) ==
    LET backed == {i - 1 : i \in {j \in 1..Len(images.list) : images.list[j].bufferView # -1}}
    IN  {NoResize} \cup (IF backed = {} THEN {}
                         ELSE {[present |-> TRUE, has |-> backed, byteLength |-> RESIZED_BYTES]})

\* The state at the call of writeGLB(input.optimizedData, input.options,
\* input.processedImages)
CallWriteGLB(input) ==
    /\ wIn = input
    /\ pc = "start"
    /\ cursor = << >>
    /\ json = << >>
    /\ meshes = << >>
    /\ bufferViews = << >>
    /\ accessors = << >>
    /\ bufferData = << >>
    /\ currentOffset = 0
    /\ accessorRemapping = {}
    /\ emitted = << >>
    /\ glb = << >>
    /\ NoMeshCall
    /\ pIn = NoParseInput
    /\ pOut = Idle
    /\ aIn = NoAccessorInput
    /\ aOut = Idle

Init ==
    \E shapes \in SeqsUpTo(PrimShapes, MaxPrims), images \in ImageLists :
       /\ Len(shapes) + Len(images.list) <= MaxParts
       /\ \E split \in Splits(Len(shapes)), config \in Configs :
            LET primitives == PrimitivesOf(shapes, split)
            IN  \E animations \in AnimationLists(primitives), skins \in SkinChoices(primitives) :
                  /\ PartCount(primitives, images, animations, skins) <= MaxParts
                  /\ \E resized \in ResizeChoices(images), hasBin \in BOOLEAN :
                       /\ NeedsBin(primitives, images, animations, skins) => hasBin
                       /\ CallWriteGLB(WriterInput(primitives, images, animations, skins, hasBin,
                                                   config.meshopt, config.supported, resized))

Next ==
    \/ BeginWrite
    \/ BeginMesh
    \/ EmitIndicesForPrim
    \/ EmitAttrForPrim
    \/ EndPrimitive
    \/ EndMesh
    \/ BeginImages
    \/ EmitImage
    \/ EndImages
    \/ BeginAnimationsAndSkins
    \/ CopyAccessorStep
    \/ PatchReferences
    \/ Finalize
    \/ ParseOutput

Spec == Init /\ [][Next]_vars

\* The assets that carry one bufferView image and one animation of one sampler
InitFair ==
    \E shapes \in SeqsUpTo(PrimShapes, MaxPrims), config \in Configs :
       \E split \in Splits(Len(shapes)) :
          LET primitives == PrimitivesOf(shapes, split)
              images == Present(OriginalImages(<<"bufferView">>))
              animations == Present(<<[samplers |-> <<[input |-> Extra(primitives, 1),
                                                       output |-> Extra(primitives, 2)]>>]>>)
          IN  /\ PartCount(primitives, images, animations, Absent) <= MaxParts
              /\ CallWriteGLB(WriterInput(primitives, images, animations, Absent, TRUE,
                                          config.meshopt, config.supported, NoResize))

\* writeGLB is synchronous: once called it runs every step through to its return
SpecFair == InitFair /\ [][Next]_vars /\ WF_vars(Next)

(***************************************************************************)
(* Properties of writeGLB (under Spec and SpecFair)                        *)
(***************************************************************************)
Written == pc \in {"done", "parsed"}
Doc == glb.chunks[1].doc
InSeq(x, seq) == \E i \in 1..Len(seq) : seq[i] = x
ViewEnd(view) == view.byteOffset + view.byteLength

\* C4: in every output of writeGLB the header's length field is the file
\* length 12 + 8 + padded JSON + 8 + padded BIN, both chunk lengths are
\* multiples of 4 (the JSON text padded with 0x20, the buffer with 0x00),
\* buffers[0].byteLength is the running offset after the last view, and every
\* bufferView ends within the buffer and overlaps no other view.
C4_LengthAccounting ==
    Written =>
        /\ glb.totalLength = glb.byteLength
        /\ glb.byteLength = PayloadEnd(glb.chunks)
        /\ glb.byteLength = 12 + 8 + glb.chunks[1].length + 8 + glb.chunks[2].length
        /\ \A c \in 1..2 :
              /\ glb.chunks[c].length % 4 = 0
              /\ glb.chunks[c].length >= glb.chunks[c].textLen
              /\ glb.chunks[c].length < glb.chunks[c].textLen + 4
        /\ glb.chunks[1].type = CHUNK_JSON /\ glb.chunks[1].padByte = 32
        /\ glb.chunks[2].type = CHUNK_BIN /\ glb.chunks[2].padByte = 0
        /\ glb.chunks[2].textLen = Doc.buffers[1].byteLength
        /\ Doc.buffers[1].byteLength =
              IF Doc.bufferViews = << >> THEN 0
              ELSE ViewEnd(Doc.bufferViews[Len(Doc.bufferViews)])
        /\ \A v \in 1..Len(Doc.bufferViews) :
              /\ Doc.bufferViews[v].byteOffset >= 0
              /\ ViewEnd(Doc.bufferViews[v]) <= Doc.buffers[1].byteLength
        /\ \A v, w \in 1..Len(Doc.bufferViews) :
              v < w => ViewEnd(Doc.bufferViews[v]) <= Doc.bufferViews[w].byteOffset

\* A file of four views or more whose JSON text and buffer both needed padding
\* and in which padding separates two views
C4_Witness ==
    /\ Written
    /\ Len(Doc.bufferViews) >= 4
    /\ glb.chunks[1].textLen % 4 # 0
    /\ Doc.buffers[1].byteLength % 4 # 0
    /\ \E v \in 1..(Len(Doc.bufferViews) - 1) :
          ViewEnd(Doc.bufferViews[v]) < Doc.bufferViews[v + 1].byteOffset

\* C5: every bufferView writeGLB emits (index, attribute, image, copied
\* animation or skin data) starts at a byteOffset that is a multiple of 4,
\* whatever the options and component types.
C5_ViewsAlignedTo4 ==
    \A v \in 1..Len(bufferViews) : bufferViews[v].byteOffset % 4 = 0

HasCompressionObject(view) == view.extension.present

\* C6: in every output, a bufferView with an EXT_meshopt_compression object
\* implies the extension is named in extensionsUsed and extensionsRequired;
\* a quantized attribute implies KHR_mesh_quantization is named in both; and a
\* bufferView carries the compression object only when the meshoptCompression
\* option is enabled.
C6_ExtensionsDeclared ==
    Written =>
        /\ (\E v \in 1..Len(Doc.bufferViews) : HasCompressionObject(Doc.bufferViews[v])) =>
              /\ InSeq("EXT_meshopt_compression", Doc.extensionsUsed)
              /\ InSeq("EXT_meshopt_compression", Doc.extensionsRequired)
              /\ wIn.options.meshoptCompression # "false"
        /\ (\E k \in 1..Len(emitted) :
               emitted[k].phase = "attribute" /\ emitted[k].componentType # GL_FLOAT) =>
              /\ InSeq("KHR_mesh_quantization", Doc.extensionsUsed)
              /\ InSeq("KHR_mesh_quantization", Doc.extensionsRequired)

\* A file with a compressed view beside an uncompressed quantized attribute,
\* written with the option left undefined
C6_Witness ==
    /\ Written
    /\ wIn.options.meshoptCompression = "undefined"
    /\ \E v \in 1..Len(Doc.bufferViews) : HasCompressionObject(Doc.bufferViews[v])
    /\ \E k \in 1..Len(emitted) :
          /\ emitted[k].phase = "attribute"
          /\ emitted[k].componentType # GL_FLOAT
          /\ ~HasCompressionObject(Doc.bufferViews[k])

EncoderThrew(tag) == tag.outcome = 0

\* The n-th view (1-based) is the bufferView of an accessor of the given type
AccessorOver(n, componentType) ==
    \E a \in 1..Len(accessors) :
        accessors[a].bufferView = n - 1 /\ accessors[a].componentType = componentType

\* Every view has the form its own encoder outcome gives it
C7_ViewsFollowOutcome ==
    \A k \in 1..Len(emitted) :
        /\ EncoderThrew(emitted[k]) =>
              /\ ~HasCompressionObject(bufferViews[k])
              /\ bufferViews[k].byteLength = emitted[k].rawLength
              /\ AccessorOver(k, emitted[k].componentType)
        /\ emitted[k].outcome > 0 =>
              /\ HasCompressionObject(bufferViews[k])
              /\ bufferViews[k].byteLength = emitted[k].outcome
        /\ emitted[k].outcome = -1 =>
              /\ ~HasCompressionObject(bufferViews[k])
              /\ bufferViews[k].byteLength = emitted[k].rawLength

\* C7: when the encoder throws on an index or vertex buffer, writeGLB still
\* completes and emits that view uncompressed (no EXT_meshopt_compression
\* object, byteLength of the raw data, accessor of the data's own component
\* type), and every other view keeps the form its own encoding gives it.
C7_FallbackOnEncoderFailure ==
    /\ []C7_ViewsFollowOutcome
    /\ (\E k \in 1..Len(emitted) : EncoderThrew(emitted[k])) ~> Written

\* A finished file in which the encoder threw on the index buffer of a
\* primitive and compressed one of its vertex buffers
C7_Witness ==
    /\ Written
    /\ \E i, k \in 1..Len(emitted) :
          /\ emitted[i].phase = "indices" /\ EncoderThrew(emitted[i])
          /\ emitted[k].phase = "attribute" /\ emitted[k].outcome > 0

PhaseRank(tag) ==
    CASE tag.phase \in {"indices", "attribute"} -> 1
      [] tag.phase = "image" -> 2
      [] tag.phase = "copy" -> 3

\* Tag t belongs before tag u: an earlier phase, or within the primitives an
\* earlier (mesh index, primitive index), or within one primitive the index
\* view (source 0) before the attributes in their order. The relation is
\* transitive, so a sequence is in order when its neighbours are.
EmittedBefore(t, u) ==
    \/ PhaseRank(t) < PhaseRank(u)
    \/ /\ PhaseRank(t) = PhaseRank(u)
       /\ PhaseRank(t) > 1
    \/ /\ PhaseRank(t) = 1
       /\ PhaseRank(u) = 1
       /\ \/ t.meshIndex < u.meshIndex
          \/ t.meshIndex = u.meshIndex /\ t.primitiveIndex < u.primitiveIndex
          \/ /\ t.meshIndex = u.meshIndex
             /\ t.primitiveIndex = u.primitiveIndex
             /\ t.source < u.source
             /\ (t.source = 0 <=> t.phase = "indices")

ViewsOfPrimitives == SumSeq([i \in 1..Len(Primitives) |-> 1 + Len(Primitives[i].attributes)])

\* C8: bufferViews are emitted in a fixed phase order: per primitive, in
\* (mesh index, primitive index) order, the index view and then the attribute
\* views; after all primitives the image views; after all images the copied
\* animation and skin accessors; only then the container is finalized, with
\* exactly the views emitted so far and all the views of the primitives.
C8_PhaseOrder ==
    /\ Len(emitted) = Len(bufferViews)
    /\ \A i \in 1..(Len(emitted) - 1) : EmittedBefore(emitted[i], emitted[i + 1])
    /\ glb # << >> <=> Written
    /\ Written =>
          /\ Doc.bufferViews = bufferViews
          /\ Cardinality({k \in 1..Len(emitted) : PhaseRank(emitted[k]) = 1}) = ViewsOfPrimitives

\* A finished file with the views of a primitive, of an image and of a copied
\* accessor
C8_Witness ==
    /\ Written
    /\ \E i, j, k, l \in 1..Len(emitted) :
          /\ emitted[i].phase = "indices"
          /\ emitted[j].phase = "attribute"
          /\ emitted[k].phase = "image"
          /\ emitted[l].phase = "copy"

\* The references animations and skins hold, as <<original, written>> pairs
SamplerReferences(a) ==
    UNION {{<<OriginalJSON.animations.list[a].samplers[k].input,
              Doc.animations.list[a].samplers[k].input>>,
            <<OriginalJSON.animations.list[a].samplers[k].output,
              Doc.animations.list[a].samplers[k].output>>} :
             k \in 1..Len(OriginalJSON.animations.list[a].samplers)}

References ==
    UNION {SamplerReferences(a) : a \in 1..Len(OriginalJSON.animations.list)}
    \cup {<<OriginalJSON.skins.list[k].inverseBindMatrices,
            Doc.skins.list[k].inverseBindMatrices>> :
             k \in {n \in 1..Len(OriginalJSON.skins.list) :
                       OriginalJSON.skins.list[n].inverseBindMatrices # -1}}

NonMeshReferences == {r \in References : r[1] \notin meshAccessorIndices(OriginalJSON)}

CopiesOf(idx) == {k \in 1..Len(emitted) : emitted[k].phase = "copy" /\ emitted[k].source = idx}

CountPrimitives(meshList) == SumSeq([m \in 1..Len(meshList) |-> Len(meshList[m].primitives)])

\* C10: the asset parsed from the output of writeGLB has as many primitives,
\* animations, skins and images as the input asset, also for data-URI
\* images, assets without a BIN chunk and images with neither bufferView nor
\* uri.
C10_RoundTripCounts ==
    pc = "parsed" =>
        /\ pOut.status = "ok"
        /\ CountPrimitives(pOut.json.doc.meshes.list) = Len(Primitives)
        /\ Len(pOut.json.doc.animations.list) = Len(OriginalJSON.animations.list)
        /\ Len(pOut.json.doc.skins.list) = Len(OriginalJSON.skins.list)
        /\ Len(pOut.json.doc.images.list) = Len(OriginalJSON.images.list)

(***************************************************************************)
(* Node transforms (glb-writer.js, applyQuantizationTransforms).           *)
(*                                                                         *)
(* Numbers are modelled by integers, on which the products and sums of the *)
(* code are exact.  A quaternion is given in halves, <<2x, 2y, 2z, 2w>>,   *)
(* so that the unit quaternions with components 0, 1 and 1/2 (the turns by *)
(* 180 and by 120 degrees) are integer; a product of a quaternion          *)
(* component and a number is therefore halved below, and the halving is    *)
(* exact on these inputs, as it is on binary floating point numbers.       *)
(***************************************************************************)
MaxNodes == 1           \* nodes of the asset
MaxWrites == 2          \* calls of writeGLB on the same optimized data

NoArray == [present |-> FALSE, v |-> << >>]
Given(v) == [present |-> TRUE, v |-> v]

NoTransform == [present |-> FALSE, scale |-> << >>, translation |-> << >>]
Transform(scale, translation) == [present |-> TRUE, scale |-> scale, translation |-> translation]

Node(mesh, scale, rotation, translation) ==
    [mesh |-> mesh, scale |-> scale, rotation |-> rotation, translation |-> translation]

\* The code's formula gives qy*cz - qz*cy and doubles it; q is in halves and
\* so is c, whence the quotient
rotateVectorByQuaternionNoTurn(v, q) == v
rotateVectorByQuaternion(v, q) ==
    LET qx == q[1]  qy == q[2]  qz == q[3]  qw == q[4]
        vx == v[1]  vy == v[2]  vz == v[3]
        cx == qy * vz - qz * vy + qw * vx
        cy == qz * vx - qx * vz + qw * vy
        cz == qx * vy - qy * vx + qw * vz
    IN  <<vx + (qy * cz - qz * cy) \div 2,
          vy + (qz * cx - qx * cz) \div 2,
          vz + (qx * cy - qy * cx) \div 2>>

\* primitives.filter((p) => p.meshIndex === node.mesh)
meshPrims(primitives, mesh) == SelectSeq(primitives, LAMBDA p : p.meshIndex = mesh)

\* The body of the loop over json.nodes: the node as the call leaves it
TransformedNode(node, primitives) ==
    LET prims == meshPrims(primitives, node.mesh)
    IN  IF node.mesh # -1 /\ Len(prims) > 0 /\ prims[1].POSITION.transform.present
        THEN LET transform == prims[1].POSITION.transform
                 dqScale == transform.scale
                 dqOffset == transform.translation
                 origScale == IF node.scale.present THEN node.scale.v ELSE <<1, 1, 1>>
                 origRotation == IF node.rotation.present THEN node.rotation.v
                                 ELSE <<0, 0, 0, 2>>
                 scale == IF ~node.scale.present THEN dqScale
                          ELSE [k \in 1..3 |-> node.scale.v[k] * dqScale[k]]
                 offset == [k \in 1..3 |-> origScale[k] * dqOffset[k]]
                 scaledOffset == IF node.rotation.present
                                 THEN rotateVectorByQuaternion(offset, origRotation)
                                 ELSE offset
                 translation == IF ~node.translation.present THEN scaledOffset
                                ELSE [k \in 1..3 |-> node.translation.v[k] + scaledOffset[k]]
             IN  [node EXCEPT !.scale = Given(scale), !.translation = Given(translation)]
        ELSE node

applyQuantizationTransforms(nodes, primitives, originalNodes) ==
    IF nodes.present /\ originalNodes.present
    THEN [nodes EXCEPT !.list = [i \in 1..Len(nodes.list) |->
                                    TransformedNode(nodes.list[i], primitives)]]
    ELSE nodes

\* JSON.parse(JSON.stringify(originalJSON.nodes)): a new array of new objects
\* that holds the same numbers; "shared" tells whether writing to the result
\* writes to the argument
SharedNodes(nodes) == [shared |-> TRUE, nodes |-> nodes]
CopiedNodes(nodes) == [shared |-> FALSE, nodes |-> nodes]

(***************************************************************************)
(* Inputs: mesh 0 has two primitives, mesh 1 has one, mesh 2 was left with *)
(* none; a quantized POSITION carries its affine, a FLOAT one does not.    *)
(***************************************************************************)
TransformChoices ==
    {NoTransform, Transform(<<2, 3, 4>>, <<1, -2, 3>>), Transform(<<3, 1, 2>>, <<-1, 4, 2>>)}

NodePrimitive(meshIndex, primitiveIndex, transform) ==
    [meshIndex |-> meshIndex, primitiveIndex |-> primitiveIndex,
     POSITION |-> [transform |-> transform]]

NodePrimitives(first, second) ==
    <<NodePrimitive(0, 0, first), NodePrimitive(0, 1, second),
      NodePrimitive(1, 0, Transform(<<3, 1, 2>>, <<-1, 4, 2>>))>>

NodeMeshes == {-1, 0, 1, 2}
NodeScales == {NoArray, Given(<<2, 3, 5>>), Given(<<-1, 1, 2>>)}
NodeRotations == {NoArray, Given(<<0, 0, 0, 2>>), Given(<<2, 0, 0, 0>>), Given(<<1, 1, 1, 1>>)}
NodeTranslations == {NoArray, Given(<<1, -2, 4>>)}

NodeChoices ==
    {Node(mesh, scale, rotation, translation) :
        mesh \in NodeMeshes, scale \in NodeScales, rotation \in NodeRotations,
        translation \in NodeTranslations}

NodeLists == {Absent} \cup {Present(list) : list \in SeqsUpTo(NodeChoices, MaxNodes)}

ParserIdle ==
    /\ pIn = NoParseInput
    /\ pOut = Idle
    /\ aIn = NoAccessorInput
    /\ aOut = Idle

(***************************************************************************)
(* SpecNodes: writeGLB called again and again on the same optimized data,  *)
(* as the level-of-detail buttons do; of each call, what happens to the    *)
(* nodes: the copy of originalJSON.nodes and applyQuantizationTransforms.  *)
(***************************************************************************)
InitNodes ==
    /\ \E nodes \in NodeLists, first \in TransformChoices, second \in TransformChoices :
          fIn = [primitives |-> NodePrimitives(first, second),
                 originalJSON |-> [nodes |-> nodes],
                 given |-> nodes]
    /\ fOut = << >>
    /\ ParserIdle
    /\ WriterIdle

WriteNodes ==
    /\ Len(fOut) < MaxWrites
    /\ LET copy == CopiedNodes(fIn.originalJSON.nodes)
           result == applyQuantizationTransforms(copy.nodes, fIn.primitives,
                                                 fIn.originalJSON.nodes)
       IN  /\ fOut' = Append(fOut, result)
           /\ fIn' = IF copy.shared THEN [fIn EXCEPT !.originalJSON.nodes = result] ELSE fIn
    /\ UNCHANGED <<pIn, pOut, aIn, aOut>>
    /\ UNCHANGED writerVars

NextNodes == WriteNodes

SpecNodes == InitNodes /\ [][NextNodes]_vars

(***************************************************************************)
(* Properties of the node transforms (under SpecNodes)                     *)
(***************************************************************************)
\* The rotation matrix of a unit quaternion given in halves, applied to v
Rotated(v, q) ==
    LET x == q[1]  y == q[2]  z == q[3]  w == q[4]
    IN  <<((2 - y * y - z * z) * v[1] + (x * y - z * w) * v[2] + (x * z + y * w) * v[3]) \div 2,
          ((x * y + z * w) * v[1] + (2 - x * x - z * z) * v[2] + (y * z - x * w) * v[3]) \div 2,
          ((x * z - y * w) * v[1] + (y * z + x * w) * v[2] + (2 - x * x - y * y) * v[3]) \div 2>>

\* The affine of the first primitive of a mesh, if the mesh has a primitive
FirstAffine(primitives, mesh) ==
    LET firsts == {k \in 1..Len(primitives) :
                      primitives[k].meshIndex = mesh /\ primitives[k].primitiveIndex = 0}
    IN  IF firsts = {} THEN NoTransform
        ELSE primitives[CHOOSE k \in firsts : TRUE].POSITION.transform

ExpectedNode(node, affine) ==
    LET scale == IF node.scale.present THEN node.scale.v ELSE <<1, 1, 1>>
        rotation == IF node.rotation.present THEN node.rotation.v ELSE <<0, 0, 0, 2>>
        translation == IF node.translation.present THEN node.translation.v ELSE <<0, 0, 0>>
        turned == Rotated([k \in 1..3 |-> scale[k] * affine.translation[k]], rotation)
    IN  [node EXCEPT !.scale = Given([k \in 1..3 |-> scale[k] * affine.scale[k]]),
                     !.translation = Given([k \in 1..3 |-> translation[k] + turned[k]])]

\* C11: in every written document, a node of a mesh whose first primitive
\* carries an affine (S, T) has scale = original scale * S and translation =
\* original translation + (original scale * T) turned by the original
\* rotation, with the defaults (1,1,1), (0,0,0) and the identity; the first
\* primitive's affine is the one used; every other node is as it was given.
C11_NodeTransformsFolded ==
    \A k \in 1..Len(fOut) :
       /\ fOut[k].present = fIn.given.present
       /\ Len(fOut[k].list) = Len(fIn.given.list)
       /\ \A i \in 1..Len(fIn.given.list) :
             LET node == fIn.given.list[i]
                 affine == FirstAffine(fIn.primitives, node.mesh)
             IN  fOut[k].list[i] = IF node.mesh # -1 /\ affine.present
                                   THEN ExpectedNode(node, affine)
                                   ELSE node

C11_Witness ==
    /\ Len(fOut) >= 1
    /\ fIn.given.present
    /\ \E i \in 1..Len(fIn.given.list) :
          LET node == fIn.given.list[i]
          IN  /\ node.mesh = 0
              /\ node.scale.present
              /\ node.translation.present
              /\ node.rotation = Given(<<1, 1, 1, 1>>)
              /\ fIn.primitives[1].POSITION.transform.present
              /\ fIn.primitives[2].POSITION.transform.present
              /\ fIn.primitives[1].POSITION.transform # fIn.primitives[2].POSITION.transform
              /\ fOut[1].list[i] # node

(***************************************************************************)
(* optimizePrimitive (glb-writer.js).                                      *)
(*                                                                         *)
(* An attribute's data is the sequence of its elements, one per vertex; an *)
(* element is a number that stands for the components of the vertex, 0 for *)
(* the zeros of a slot that was never written.  Indices are 0-based, three *)
(* per triangle.  MeshoptSimplifier.compactMesh and                        *)
(* MeshoptEncoder.reorderMesh are the library's: both build the remap with *)
(* meshopt_optimizeVertexFetchRemap over maxindex(indices) + 1 vertices,   *)
(* which numbers the vertices in the order of their first use and leaves   *)
(* 0xffffffff, here -1, for a vertex that no index uses; both rewrite the  *)
(* indices in place.                                                       *)
(***************************************************************************)
MaxVertices == 6        \* vertices of a primitive
MaxTriangles == 1       \* triangles of an arbitrary index list

\* The largest element, 0 for none (the elements are indices)
MaxOfSeq(q) ==
    LET elements == {q[i] : i \in 1..Len(q)} \cup {0}
    IN  CHOOSE m \in elements : \A x \in elements : x <= m

maxindex(indices) == MaxOfSeq(indices)

RECURSIVE optimizeVertexFetchRemap(_, _, _, _)
optimizeVertexFetchRemap(indices, k, remap, next) ==
    IF k > Len(indices) THEN [remap |-> remap, unique |-> next]
    ELSE IF remap[indices[k] + 1] < 0
         THEN optimizeVertexFetchRemap(indices, k + 1,
                                       [remap EXCEPT ![indices[k] + 1] = next], next + 1)
         ELSE optimizeVertexFetchRemap(indices, k + 1, remap, next)

\* reorder(): [remap, unique], and the indices as it leaves them
reorder(indices, vertices) ==
    LET fetch == optimizeVertexFetchRemap(indices, 1, [v \in 1..vertices |-> -1], 0)
    IN  [remap |-> fetch.remap, unique |-> fetch.unique,
         indices |-> [i \in 1..Len(indices) |-> fetch.remap[indices[i] + 1]]]

compactMesh(indices) == reorder(indices, maxindex(indices) + 1)

\* meshopt_optimizeVertexCache reorders the triangles; "order" is the order
\* it chose
TrianglesInOrder(indices, order) ==
    [i \in 1..Len(indices) |-> indices[3 * (order[((i - 1) \div 3) + 1] - 1) + ((i - 1) % 3) + 1]]

reorderMesh(indices, order) ==
    LET cached == TrianglesInOrder(indices, order)
    IN  reorder(cached, maxindex(cached) + 1)

TriangleOrders(indices) ==
    LET n == Len(indices) \div 3
    IN  {order \in [1..n -> 1..n] : \A a, b \in 1..n : a # b => order[a] # order[b]}

createDefaultIndices(vertexCount) == [i \in 1..vertexCount |-> i - 1]

\* new data.constructor(newCount * numComponents) with newCount = 2^32, which
\* Math.max(...remap) + 1 is once the remap holds 0xffffffff, is a RangeError
RangeError == [thrown |-> TRUE, data |-> << >>]

remapAttribute(data, remap) ==
    LET oldCount == Len(data)
        newCount == MaxOfSeq(remap) + 1
        written(slot) == {i \in 1..oldCount : i <= Len(remap) /\ remap[i] = slot}
    IN  IF \E i \in 1..Len(remap) : remap[i] < 0
        THEN RangeError
        ELSE [thrown |-> FALSE,
              data |-> [k \in 1..newCount |->
                          IF written(k - 1) = {} THEN 0
                          ELSE data[CHOOSE i \in written(k - 1) :
                                       \A j \in written(k - 1) : j <= i]]]

\* One of the two stages: the call of the library, then remapAttribute on
\* POSITION and on every other attribute
Remapped(stage, reordered) ==
    LET results == [a \in 1..Len(stage.attributes) |->
                       remapAttribute(stage.attributes[a].data, reordered.remap)]
    IN  IF \E a \in 1..Len(results) : results[a].thrown
        THEN [stage EXCEPT !.thrown = TRUE]
        ELSE [thrown |-> FALSE,
              indices |-> reordered.indices,
              vertexCount |-> reordered.unique,
              attributes |-> [a \in 1..Len(results) |->
                                 [stage.attributes[a] EXCEPT !.data = results[a].data]]]

QuantizedType(name, options) ==
    CASE name = "POSITION" /\ options.quantizePositions -> GL_SHORT
      [] name = "NORMAL" /\ options.quantizeNormals -> GL_BYTE
      [] name \in {"POSITION", "NORMAL"} -> GL_FLOAT
      [] OTHER -> GL_UNSIGNED_BYTE

\* Lines 659-704: the arrays after the two stages; order is the triangle
\* order of the vertex cache optimizer
RemapStages(primitive, options, supported, order) ==
    LET ingested == [thrown |-> FALSE,
                     indices |-> IF primitive.indices.present THEN primitive.indices.list
                                 ELSE createDefaultIndices(Len(primitive.attributes[1].data)),
                     vertexCount |-> Len(primitive.attributes[1].data),
                     attributes |-> primitive.attributes]
        deduped == IF options.deduplicateVertices /\ supported.simplifier
                   THEN Remapped(ingested, compactMesh(ingested.indices))
                   ELSE ingested
    IN  IF deduped.thrown THEN deduped
        ELSE IF options.optimizeVertexCache /\ supported.encoder
             THEN Remapped(deduped, reorderMesh(deduped.indices, order))
             ELSE deduped

\* Lines 675-683, 694-703: both stages assign primitive.attributes[name] for
\* every attribute but POSITION; the primitive as the call leaves it
PrimitiveAfterOptimize(primitive, options, supported, order) ==
    LET cached == RemapStages(primitive, options, supported, order)
    IN  IF cached.thrown THEN primitive
        ELSE [primitive EXCEPT !.attributes =
                 [a \in 1..Len(primitive.attributes) |->
                     IF primitive.attributes[a].name = "POSITION" THEN primitive.attributes[a]
                     ELSE cached.attributes[a]]]

\* optimizePrimitive(primitive, options)
optimizePrimitive(primitive, options, supported, order) ==
    LET cached == RemapStages(primitive, options, supported, order)
    IN  IF cached.thrown
        THEN [status |-> "thrown", vertexCount |-> 0, attributes |-> << >>, indices |-> << >>]
        ELSE [status |-> "returned",
              vertexCount |-> cached.vertexCount,
              attributes |-> [a \in 1..Len(cached.attributes) |->
                                 [name |-> cached.attributes[a].name,
                                  data |-> cached.attributes[a].data,
                                  componentType |-> QuantizedType(cached.attributes[a].name,
                                                                  options),
                                  count |-> cached.vertexCount]],
              indices |-> cached.indices]

(***************************************************************************)
(* Inputs: a triangle list of up to MaxVertices vertices with POSITION,    *)
(* NORMAL and COLOR_0; the vertices are all different, or every third one  *)
(* repeats the same data (coincident triangles).  The indices are absent,  *)
(* or 0, 1, 2, ..., or 1 to MaxTriangles triangles over the vertices.      *)
(***************************************************************************)
DistinctData(n) == [i \in 1..n |-> i]
CoincidentData(n) == [i \in 1..n |-> ((i - 1) % 3) + 1]

VertexData(n) == {DistinctData(n), CoincidentData(n)}

TriangleChoices(n) ==
    {t \in {<<a, b, c>> : a \in 0..(n - 1), b \in 0..(n - 1), c \in 0..(n - 1)} :
        t[1] < t[2] /\ t[2] < t[3]}

IndexChoices(n) ==
    {Absent}
    \cup (IF n % 3 = 0 /\ n > 0 THEN {Present(createDefaultIndices(n))} ELSE {})
    \cup {Present(Flatten(triangles)) :
            triangles \in SeqsUpTo(TriangleChoices(n), MaxTriangles) \ {<< >>}}

OptimizeOptions ==
    [deduplicateVertices : BOOLEAN, optimizeVertexCache : BOOLEAN,
     quantizePositions : BOOLEAN, quantizeNormals : BOOLEAN]

DEFAULT_OPTIONS ==
    [deduplicateVertices |-> TRUE, optimizeVertexCache |-> TRUE,
     quantizePositions |-> TRUE, quantizeNormals |-> TRUE]

CapabilityChoices ==
    {[simplifier |-> TRUE, encoder |-> TRUE], [simplifier |-> FALSE, encoder |-> FALSE]}

InputPrimitive(data, indices) ==
    [attributes |-> <<[name |-> "POSITION", data |-> data],
                      [name |-> "NORMAL", data |-> data],
                      [name |-> "COLOR_0", data |-> data]>>,
     indices |-> indices]

(***************************************************************************)
(* SpecOptimize: one call of optimizePrimitive.                            *)
(***************************************************************************)
InitOptimize ==
    /\ \E n \in 3..MaxVertices :
          \E data \in VertexData(n), indices \in IndexChoices(n), options \in OptimizeOptions,
             supported \in CapabilityChoices :
             /\ ~indices.present => n % 3 = 0
             /\ fIn = [primitive |-> InputPrimitive(data, indices), options |-> options,
                       supported |-> supported]
    /\ fOut = Idle
    /\ ParserIdle
    /\ WriterIdle

CallOptimizePrimitive ==
    /\ fOut = Idle
    /\ LET indices == IF fIn.primitive.indices.present THEN fIn.primitive.indices.list
                      ELSE createDefaultIndices(Len(fIn.primitive.attributes[1].data))
       IN  \E order \in TriangleOrders(indices) :
              fOut' = optimizePrimitive(fIn.primitive, fIn.options, fIn.supported, order)
    /\ UNCHANGED fIn
    /\ UNCHANGED <<pIn, pOut, aIn, aOut>>
    /\ UNCHANGED writerVars

NextOptimize == CallOptimizePrimitive

SpecOptimize == InitOptimize /\ [][NextOptimize]_vars

(***************************************************************************)
(* Properties of optimizePrimitive (under SpecOptimize)                    *)
(***************************************************************************)
\* C12: a call of optimizePrimitive, whatever the options and also when some
\* vertex is referenced by no index, returns a primitive in which every
\* attribute holds exactly vertexCount elements and every index is below
\* vertexCount.
C12_CountsAgree ==
    fOut # Idle =>
       /\ fOut.status = "returned"
       /\ \A a \in 1..Len(fOut.attributes) :
             /\ fOut.attributes[a].count = fOut.vertexCount
             /\ Len(fOut.attributes[a].data) = fOut.vertexCount
       /\ \A i \in 1..Len(fOut.indices) : fOut.indices[i] < fOut.vertexCount

\* C13: with the default options, six vertices that form two coincident
\* triangles and the indices 0..5 leave optimizePrimitive with three
\* vertices, and the largest index + 1 is the vertex count.
C13_CoincidentVerticesMerged ==
    (/\ fOut # Idle
     /\ fIn.options = DEFAULT_OPTIONS
     /\ fIn.supported.simplifier /\ fIn.supported.encoder
     /\ fIn.primitive.attributes[1].data = CoincidentData(6)
     /\ fIn.primitive.indices = Present(createDefaultIndices(6)))
    => /\ fOut.status = "returned"
       /\ fOut.vertexCount = 3
       /\ maxindex(fOut.indices) + 1 = fOut.vertexCount

(***************************************************************************)
(* simplifyPrimitive and generateLODChain (glb-writer.js).                 *)
(*                                                                         *)
(* A ratio is given in percent.  MeshoptSimplifier.simplify is the         *)
(* library's: it returns an index list of at most as many triangles as it  *)
(* was given, over the vertices it was given, and it may stop before the   *)
(* target is reached (error threshold, locked border).  "kept" is what it  *)
(* returned: the number of triangles that are left, the first ones here.   *)
(***************************************************************************)
MaxLodTriangles == 3    \* triangles of a primitive of the asset
MaxLevels == 2          \* levels asked of generateLODChain
MaxLodPrimitives == 2   \* primitives of the asset

NoStats == [present |-> FALSE, originalTriangles |-> 0, simplifiedTriangles |-> 0]

IndicesOf(primitive) ==
    IF primitive.indices.present THEN primitive.indices.list
    ELSE createDefaultIndices(Len(primitive.attributes[1].data))

\* Lines 1022-1024
targetIndexCountAligned(indexCount, targetRatio) ==
    Max(3, (((indexCount * targetRatio) \div 100) \div 3) * 3)

\* What simplify may return for these indices
SimplifierOutcomes(indices) == 1..(Len(indices) \div 3)

KeptTriangles(indices, kept) == [i \in 1..(3 * kept) |-> indices[i]]

\* Lines 1083-1102: the attributes of the vertices that are left
CompactedData(data, remap, uniqueCount) ==
    LET written(slot) == {i \in 1..Len(data) : i <= Len(remap) /\ remap[i] = slot}
    IN  [k \in 1..uniqueCount |->
           IF written(k - 1) = {} THEN 0
           ELSE data[CHOOSE i \in written(k - 1) : \A j \in written(k - 1) : j <= i]]

\* simplifyPrimitive(primitive, targetRatio, ...) when simplify returned "kept"
simplifyPrimitive(primitive, supported, kept) ==
    IF ~supported.simplifier
    THEN [attributes |-> primitive.attributes, indices |-> primitive.indices, stats |-> NoStats]
    ELSE LET indices == IndicesOf(primitive)
             simplifiedIndices == KeptTriangles(indices, kept)
             compacted == compactMesh(simplifiedIndices)
         IN  [attributes |-> [a \in 1..Len(primitive.attributes) |->
                                 [primitive.attributes[a] EXCEPT
                                     !.data = CompactedData(primitive.attributes[a].data,
                                                            compacted.remap, compacted.unique)]],
              indices |-> Present(compacted.indices),
              stats |-> [present |-> TRUE,
                         originalTriangles |-> Len(indices) \div 3,
                         simplifiedTriangles |-> Len(simplifiedIndices) \div 3]]

\* The Simplifier returned more than the target it was given
StoppedEarly(primitive, targetRatio, supported, kept) ==
    /\ supported.simplifier
    /\ 3 * kept > targetIndexCountAligned(Len(IndicesOf(primitive)), targetRatio)

\* Lines 1189-1196
totalTriangles(simplifiedPrimitives) ==
    SumSeq([p \in 1..Len(simplifiedPrimitives) |->
              IF simplifiedPrimitives[p].stats.present
              THEN simplifiedPrimitives[p].stats.simplifiedTriangles ELSE 0])

totalOriginalTriangles(simplifiedPrimitives) ==
    SumSeq([p \in 1..Len(simplifiedPrimitives) |->
              IF simplifiedPrimitives[p].stats.present
              THEN simplifiedPrimitives[p].stats.originalTriangles ELSE 0])

\* A triangle list of n separate triangles
LodPrimitive(n) == InputPrimitive(DistinctData(3 * n), Present(createDefaultIndices(3 * n)))

LodPrimitiveLists ==
    {list \in SeqsUpTo({LodPrimitive(n) : n \in 1..MaxLodTriangles}, MaxLodPrimitives) :
        list # << >>}

Ratios == {100, 75, 50, 25}

LevelLists ==
    {levels \in SeqsUpTo(Ratios, MaxLevels) :
        /\ levels # << >>
        /\ \A k \in 1..(Len(levels) - 1) : levels[k] > levels[k + 1]}

(***************************************************************************)
(* SpecLOD: one call of generateLODChain, level by level.                  *)
(***************************************************************************)
InitLOD ==
    /\ \E originalPrimitives \in LodPrimitiveLists, levels \in LevelLists,
          supported \in CapabilityChoices :
          fIn = [originalPrimitives |-> originalPrimitives, levels |-> levels,
                 options |-> DEFAULT_OPTIONS, supported |-> supported]
    /\ fOut = [status |-> "running", lodChain |-> << >>]
    /\ ParserIdle
    /\ WriterIdle

\* One turn of the loop over levels: simplifyPrimitive on every primitive,
\* optimizeGLB on what they returned, the totals, lodChain.push
LevelOfDetail ==
    /\ fOut.status = "running"
    /\ Len(fOut.lodChain) < Len(fIn.levels)
    /\ LET targetRatio == fIn.levels[Len(fOut.lodChain) + 1]
           count == Len(fIn.originalPrimitives)
       IN  \E kept \in [1..count -> 1..MaxLodTriangles] :
              /\ \A p \in 1..count :
                    kept[p] \in SimplifierOutcomes(IndicesOf(fIn.originalPrimitives[p]))
              /\ LET simplifiedPrimitives ==
                         [p \in 1..count |->
                            simplifyPrimitive(fIn.originalPrimitives[p], fIn.supported,
                                              kept[p])]
                     optimized ==
                         [p \in 1..count |->
                            optimizePrimitive(simplifiedPrimitives[p], fIn.options, fIn.supported,
                                              [t \in 1..(Len(IndicesOf(simplifiedPrimitives[p]))
                                                         \div 3) |-> t])]
                 IN  IF \E p \in 1..count : optimized[p].status = "thrown"
                     THEN fOut' = [fOut EXCEPT !.status = "thrown"]
                     ELSE fOut' = [fOut EXCEPT !.lodChain = Append(@,
                                      [level |-> targetRatio,
                                       triangleCount |->
                                           totalTriangles(simplifiedPrimitives),
                                       originalTriangleCount |->
                                           totalOriginalTriangles(simplifiedPrimitives),
                                       stoppedEarly |->
                                           \E p \in 1..count :
                                              StoppedEarly(fIn.originalPrimitives[p],
                                                           targetRatio, fIn.supported,
                                                           kept[p])])]
    /\ UNCHANGED fIn
    /\ UNCHANGED <<pIn, pOut, aIn, aOut>>
    /\ UNCHANGED writerVars

ReturnLODChain ==
    /\ fOut.status = "running"
    /\ Len(fOut.lodChain) = Len(fIn.levels)
    /\ fOut' = [fOut EXCEPT !.status = "returned"]
    /\ UNCHANGED fIn
    /\ UNCHANGED <<pIn, pOut, aIn, aOut>>
    /\ UNCHANGED writerVars

NextLOD ==
    \/ LevelOfDetail
    \/ ReturnLODChain

SpecLOD == InitLOD /\ [][NextLOD]_vars

(***************************************************************************)
(* Properties of generateLODChain (under SpecLOD)                          *)
(***************************************************************************)
OriginalTriangles ==
    SumSeq([p \in 1..Len(fIn.originalPrimitives) |->
              Len(IndicesOf(fIn.originalPrimitives[p])) \div 3])

\* C14: whatever the Simplifier returned, early stops included, the level of
\* ratio r has at most ceil(originalTriangles * r) + 1 triangles, and the
\* counts do not increase along the (decreasing) ratios.
C14_TriangleBudget ==
    /\ \A k \in 1..Len(fOut.lodChain) :
          fOut.lodChain[k].triangleCount
             <= ((OriginalTriangles * fOut.lodChain[k].level + 99) \div 100) + 1
    /\ \A k \in 1..(Len(fOut.lodChain) - 1) :
          fOut.lodChain[k].triangleCount >= fOut.lodChain[k + 1].triangleCount

\* C15: without the Simplifier generateLODChain returns, every level holds
\* the primitives as they were given, and the triangle count reported for
\* every level is the original triangle count.
C15_IdentityWithoutSimplifier ==
    ~fIn.supported.simplifier =>
       /\ fOut.status # "thrown"
       /\ \A k \in 1..Len(fOut.lodChain) :
             fOut.lodChain[k].triangleCount = OriginalTriangles

(***************************************************************************)
(* The vertex lock (texture-importance.js, buildVertexLock, and its call   *)
(* in simplifyPrimitive).  Scores and thresholds are given in hundredths.  *)
(***************************************************************************)
MaxLockVertices == 2    \* vertices of the primitive that is simplified

DEFAULT_IMPORTANCE_THRESHOLD == 50

\* importanceThreshold * 0.5 is compared as 2 * score > importanceThreshold
buildVertexLock(importance, seamVertices, importanceThreshold) ==
    [v \in 1..Len(importance) |->
        IF (v - 1) \in seamVertices
        THEN IF 2 * importance[v] > importanceThreshold THEN 1 ELSE 0
        ELSE IF importance[v] > importanceThreshold THEN 1 ELSE 0]

\* options.importanceThreshold || 0.5
ThresholdOrDefault(importanceThreshold) ==
    IF importanceThreshold = 0 THEN DEFAULT_IMPORTANCE_THRESHOLD ELSE importanceThreshold

\* Lines 1034-1038: the vertexLock that simplifyWithAttributes is given
vertexLock(textureImportance, uvSeams, importanceThreshold) ==
    buildVertexLock(textureImportance, uvSeams, ThresholdOrDefault(importanceThreshold))

Scores == {0, 12, 13, 30, 60}
Thresholds == {0, 25, 50, 100}

(***************************************************************************)
(* SpecLock: the lock of one primitive, built for the threshold the user   *)
(* chose.                                                                  *)
(***************************************************************************)
InitLock ==
    /\ \E textureImportance \in SeqsUpTo(Scores, MaxLockVertices),
          importanceThreshold \in Thresholds :
          \E uvSeams \in SUBSET (0..(Len(textureImportance) - 1)) :
             fIn = [textureImportance |-> textureImportance, uvSeams |-> uvSeams,
                    importanceThreshold |-> importanceThreshold]
    /\ fOut = Idle
    /\ ParserIdle
    /\ WriterIdle

BuildLock ==
    /\ fOut = Idle
    /\ fOut' = [status |-> "returned",
                vertexLock |-> vertexLock(fIn.textureImportance, fIn.uvSeams,
                                          fIn.importanceThreshold)]
    /\ UNCHANGED fIn
    /\ UNCHANGED <<pIn, pOut, aIn, aOut>>
    /\ UNCHANGED writerVars

NextLock == BuildLock

SpecLock == InitLock /\ [][NextLock]_vars

(***************************************************************************)
(* Properties of the vertex lock (under SpecLock)                          *)
(***************************************************************************)
\* C16: for every threshold T, 0 included, the lock handed to the Simplifier
\* has one entry per vertex, and the entry of v is 1 exactly when v is on a
\* seam and its score is above T / 2, or v is not and its score is above T.
C16_LockFollowsThreshold ==
    fOut # Idle =>
       /\ Len(fOut.vertexLock) = Len(fIn.textureImportance)
       /\ \A v \in 1..Len(fIn.textureImportance) :
             (fOut.vertexLock[v] = 1) <=>
                \/ (v - 1) \in fIn.uvSeams /\ 2 * fIn.textureImportance[v] > fIn.importanceThreshold
                \/ (v - 1) \notin fIn.uvSeams /\ fIn.textureImportance[v] > fIn.importanceThreshold

(***************************************************************************)
(* The quantizers (quantizer.js).                                          *)
(*                                                                         *)
(* Coordinates are integers and texture coordinates are halves (2u); the   *)
(* quotients and the square root of the code are computed exactly, as the  *)
(* fractions they are, where the code rounds them to double precision.  A  *)
(* result carries, next to "quantized", the numbers that Math.round        *)
(* returned before they were stored into the typed array.                  *)
(***************************************************************************)
MaxPoints == 2          \* elements of the attribute that is quantized
MaxCoord == 2           \* the coordinates lie in -MaxCoord..MaxCoord

INT16_MAX == 32767
INT8_MAX == 127
UINT16_MAX == 65535

\* Math.round(n / d) for d > 0: the nearest integer, a tie goes up
JsRound(n, d) == (2 * n + d) \div (2 * d)

\* What a store into an Int8Array, Int16Array, Uint16Array keeps of an integer
ToInt8(x) == ((x + 128) % 256) - 128
ToInt16(x) == ((x + 32768) % 65536) - 32768
ToUint16(x) == x % 65536

MinOf(values) == CHOOSE m \in values : \A x \in values : m <= x
MaxOf(values) == CHOOSE m \in values : \A x \in values : x <= m

\* Twice the center, (min + max) / 2
CenterTimes2AtMin(min, max) == 2 * min
CenterTimes2(min, max) == min + max

\* The scale as a fraction: range / (2 * maxValue), or 1 on a flat axis
ScaleOf(range, maxValue) ==
    IF range > 0 THEN [num |-> range, den |-> 2 * maxValue] ELSE [num |-> 1, den |-> 1]

quantizePositions(positions, bits) ==
    LET use8Bit == bits = 8
        maxValue == IF use8Bit THEN INT8_MAX ELSE INT16_MAX
        Store(x) == IF use8Bit THEN ToInt8(x) ELSE ToInt16(x)
        min == [k \in 1..3 |-> MinOf({positions[i][k] : i \in 1..Len(positions)})]
        max == [k \in 1..3 |-> MaxOf({positions[i][k] : i \in 1..Len(positions)})]
        scale == [k \in 1..3 |-> ScaleOf(max[k] - min[k], maxValue)]
        center2 == [k \in 1..3 |-> CenterTimes2(min[k], max[k])]
        rounded == [i \in 1..Len(positions) |-> [k \in 1..3 |->
                      JsRound((2 * positions[i][k] - center2[k]) * scale[k].den,
                              2 * scale[k].num)]]
    IN  [quantized |-> [i \in 1..Len(positions) |-> [k \in 1..3 |->
                          Max(-maxValue, Min(maxValue, Store(rounded[i][k])))]],
         rounded |-> rounded,
         min |-> min, max |-> max, scale |-> scale, center2 |-> center2,
         maxValue |-> maxValue,
         componentType |-> IF use8Bit THEN GL_BYTE ELSE GL_SHORT]

\* Math.round(127 * n / sqrt(s)) for s > 0
UnitTimes127NotNormalized(n, s) == 127 * n
UnitTimes127(n, s) ==
    IF n >= 0
    THEN MaxOf({k \in 0..INT8_MAX : k = 0 \/ (2 * k - 1) * (2 * k - 1) * s <= (254 * n) * (254 * n)})
    ELSE -MinOf({k \in 0..INT8_MAX : (2 * k + 1) * (2 * k + 1) * s >= (254 * n) * (254 * n)})

\* Lines 119-131, the same in quantizeTangents: the rounded x, y, z
RoundedUnit(vector) ==
    LET s == vector[1] * vector[1] + vector[2] * vector[2] + vector[3] * vector[3]
    IN  [k \in 1..3 |-> IF s > 0 THEN UnitTimes127(vector[k], s) ELSE 127 * vector[k]]

quantizeNormals(normals) ==
    LET rounded == [i \in 1..Len(normals) |-> RoundedUnit(normals[i])]
    IN  [quantized |-> [i \in 1..Len(normals) |-> [k \in 1..3 |-> ToInt8(rounded[i][k])]],
         rounded |-> rounded,
         componentType |-> GL_BYTE]

quantizeTangents(tangents) ==
    LET rounded == [i \in 1..Len(tangents) |->
                      RoundedUnit(tangents[i]) \o <<IF tangents[i][4] >= 0 THEN 127 ELSE -127>>]
    IN  [quantized |-> [i \in 1..Len(tangents) |-> [k \in 1..4 |-> ToInt8(rounded[i][k])]],
         rounded |-> rounded,
         componentType |-> GL_BYTE]

\* uvs in halves: u = uvs[i][1] / 2
quantizeUVs(uvs) ==
    LET min == [k \in 1..2 |-> MinOf({uvs[i][k] : i \in 1..Len(uvs)})]
        max == [k \in 1..2 |-> MaxOf({uvs[i][k] : i \in 1..Len(uvs)})]
        inStandardRange == \A k \in 1..2 : min[k] >= 0 /\ max[k] <= 2
        range == [k \in 1..2 |-> IF max[k] - min[k] # 0 THEN max[k] - min[k] ELSE 2]
        rounded == [i \in 1..Len(uvs) |-> [k \in 1..2 |->
                      IF inStandardRange THEN JsRound(uvs[i][k] * UINT16_MAX, 2)
                      ELSE JsRound((uvs[i][k] - min[k]) * UINT16_MAX, range[k])]]
    IN  [quantized |-> [i \in 1..Len(uvs) |-> [k \in 1..2 |-> ToUint16(rounded[i][k])]],
         rounded |-> rounded,
         componentType |-> GL_UNSIGNED_SHORT]

PointChoices == {<<x, y, 7>> : x \in (-MaxCoord)..MaxCoord, y \in 0..1}
NormalChoices ==
    {<<0, 0, 0>>, <<1, 0, 0>>, <<0, -1, 0>>, <<1, 1, 0>>, <<-2, 0, 0>>, <<1, 2, 2>>,
     <<3, -4, 0>>, <<1, -1, 1>>}
TangentChoices ==
    {n \o <<w>> : n \in {<<0, 0, 0>>, <<1, 0, 0>>, <<1, 2, 2>>, <<3, -4, 0>>}, w \in {-1, 0, 1}}
UVChoices == {<<u, v>> : u \in -1..4, v \in {0, 3}}

(***************************************************************************)
(* SpecQuantize: one call of one of the quantizers.                        *)
(***************************************************************************)
InitQuantize ==
    /\ \/ \E positions \in SeqsUpTo(PointChoices, MaxPoints), bits \in {8, 16} :
             /\ positions # << >>
             /\ fIn = [fn |-> "quantizePositions", data |-> positions, bits |-> bits]
       \/ \E normals \in SeqsUpTo(NormalChoices, MaxPoints) :
             /\ normals # << >>
             /\ fIn = [fn |-> "quantizeNormals", data |-> normals, bits |-> 8]
       \/ \E tangents \in SeqsUpTo(TangentChoices, MaxPoints) :
             /\ tangents # << >>
             /\ fIn = [fn |-> "quantizeTangents", data |-> tangents, bits |-> 8]
       \/ \E uvs \in SeqsUpTo(UVChoices, MaxPoints) :
             /\ uvs # << >>
             /\ fIn = [fn |-> "quantizeUVs", data |-> uvs, bits |-> 16]
    /\ fOut = Idle
    /\ ParserIdle
    /\ WriterIdle

Quantized(result) ==
    /\ fOut = Idle
    /\ fOut' = result
    /\ UNCHANGED fIn
    /\ UNCHANGED <<pIn, pOut, aIn, aOut>>
    /\ UNCHANGED writerVars

CallQuantizePositions ==
    /\ fIn.fn = "quantizePositions"
    /\ Quantized(quantizePositions(fIn.data, fIn.bits))

CallQuantizeNormals ==
    /\ fIn.fn = "quantizeNormals"
    /\ Quantized(quantizeNormals(fIn.data))

CallQuantizeTangents ==
    /\ fIn.fn = "quantizeTangents"
    /\ Quantized(quantizeTangents(fIn.data))

CallQuantizeUVs ==
    /\ fIn.fn = "quantizeUVs"
    /\ Quantized(quantizeUVs(fIn.data))

NextQuantize ==
    \/ CallQuantizePositions
    \/ CallQuantizeNormals
    \/ CallQuantizeTangents
    \/ CallQuantizeUVs

SpecQuantize == InitQuantize /\ [][NextQuantize]_vars

(***************************************************************************)
(* Properties of the quantizers (under SpecQuantize)                       *)
(***************************************************************************)
Elements == {<<i, k>> : i \in 1..Len(fOut.quantized), k \in 1..Len(fOut.quantized[1])}

\* C17: every quantized integer is in the range of its attribute, and no
\* store into the typed array wrapped around: positions lie in -maxValue ..
\* maxValue, normals and tangents in -127..127 with w = 127 for w >= 0 and
\* -127 otherwise, texture coordinates in 0..65535.
C17_QuantizedInRange ==
    fOut # Idle =>
       /\ Len(fOut.quantized) = Len(fIn.data)
       /\ \A e \in Elements :
             LET q == fOut.quantized[e[1]][e[2]]
                 r == fOut.rounded[e[1]][e[2]]
             IN  CASE fIn.fn = "quantizePositions" ->
                        /\ fOut.maxValue = IF fIn.bits = 8 THEN 127 ELSE 32767
                        /\ -fOut.maxValue <= q /\ q <= fOut.maxValue
                        /\ q = Max(-fOut.maxValue, Min(fOut.maxValue, r))
                   [] fIn.fn = "quantizeUVs" -> 0 <= q /\ q <= 65535 /\ q = r
                   [] OTHER ->
                        /\ -127 <= q /\ q <= 127 /\ q = r
                        /\ e[2] = 4 => q = IF fIn.data[e[1]][4] >= 0 THEN 127 ELSE -127

C17_Witness ==
    /\ fOut # Idle
    /\ \/ /\ fIn.fn = "quantizeNormals"
          /\ \E i \in 1..Len(fIn.data) : fIn.data[i] = <<0, 0, 0>>
          /\ \E i \in 1..Len(fIn.data) : fOut.quantized[i] = <<-127, 0, 0>>
       \/ /\ fIn.fn = "quantizeUVs"
          /\ \E i \in 1..Len(fIn.data) : fIn.data[i][1] > 2 /\ fOut.quantized[i][1] = 65535

getAllPrimitivesCached(asset) == [shared |-> TRUE, list |-> <<asset.primitive>>]
getAllPrimitives(asset) == [shared |-> FALSE, list |-> <<asset.primitive>>]

\* optimizeGLB: every primitive of getAllPrimitives through optimizePrimitive;
\* a quantized POSITION carries its affine
optimizeGLB(primitives, affine, options, supported, order) ==
    [p \in 1..Len(primitives) |->
        LET opt == optimizePrimitive(primitives[p], options, supported, order)
        IN  [meshIndex |-> 0, primitiveIndex |-> p - 1, data |-> opt,
             POSITION |-> [transform |-> IF options.quantizePositions THEN affine
                                         ELSE NoTransform]]]

AllTriangles(n) ==
    {t \in {<<a, b, c>> : a \in 0..(n - 1), b \in 0..(n - 1), c \in 0..(n - 1)} :
        t[1] # t[2] /\ t[2] # t[3] /\ t[1] # t[3]}

CoveringIndexChoices(n) ==
    (IF n % 3 = 0 THEN {Absent} ELSE {})
    \cup {Present(Flatten(<<first>> \o rest)) :
            first \in AllTriangles(n),
            rest \in SeqsUpTo(TriangleChoices(n), MaxTriangles - 1)}

AssetNodes ==
    {Present(<<Node(0, NoArray, NoArray, NoArray)>>),
     Present(<<Node(0, Given(<<2, 3, 5>>), Given(<<1, 1, 1, 1>>), Given(<<1, -2, 4>>))>>)}

InitTwice ==
    /\ \E n \in 3..MaxVertices :
          \E indices \in CoveringIndexChoices(n), options \in OptimizeOptions,
             supported \in CapabilityChoices, nodes \in AssetNodes :
             LET list == IF indices.present THEN indices.list ELSE createDefaultIndices(n)
             IN  /\ \A v \in 0..(n - 1) : \E i \in 1..Len(list) : list[i] = v
                 /\ \E order \in TriangleOrders(list) :
                       fIn = [asset |-> [primitive |-> InputPrimitive(DistinctData(n), indices),
                                         affine |-> Transform(<<2, 3, 4>>, <<1, -2, 3>>),
                                         nodes |-> nodes],
                              given |-> InputPrimitive(DistinctData(n), indices),
                              options |-> options, supported |-> supported, order |-> order]
    /\ fOut = << >>
    /\ ParserIdle
    /\ WriterIdle

\* optimizeGLB(parsedGLB, options), then writeGLB of what it returned
OptimizeAndWrite ==
    /\ Len(fOut) < MaxWrites
    /\ LET parsed == getAllPrimitives(fIn.asset)
           optimized == optimizeGLB(parsed.list, fIn.asset.affine, fIn.options,
                                    fIn.supported, fIn.order)
           left == PrimitiveAfterOptimize(parsed.list[1], fIn.options, fIn.supported,
                                          fIn.order)
           copy == CopiedNodes(fIn.asset.nodes)
           nodes == applyQuantizationTransforms(copy.nodes, optimized, fIn.asset.nodes)
       IN  /\ fOut' = Append(fOut, [primitives |-> optimized, nodes |-> nodes])
           /\ fIn' = [fIn EXCEPT !.asset.primitive = IF parsed.shared THEN left ELSE @,
                                 !.asset.nodes = IF copy.shared THEN nodes ELSE @]
    /\ UNCHANGED <<pIn, pOut, aIn, aOut>>
    /\ UNCHANGED writerVars

NextTwice == OptimizeAndWrite

SpecTwice == InitTwice /\ [][NextTwice]_vars

WalkedOfType(in, type) ==
    {k \in 1..Len(in.chunks) : Walked(in, k) /\ in.chunks[k].type = type}

\* The same buffer without its chunks of unknown type
KnownChunksOnly(in) ==
    ParseInput(SelectSeq(in.chunks, LAMBDA c : c.type \in {CHUNK_JSON, CHUNK_BIN}),
               0, in.magic, in.version, "real")

\* What the caller sees of a result: the outcome, the document, the blob
Asset(out) ==
    [status |-> out.status, error |-> out.error,
     json |-> [truthy |-> out.json.truthy, byteLength |-> out.json.byteLength,
               doc |-> out.json.doc],
     binChunk |-> [set |-> out.binChunk.set, byteLength |-> out.binChunk.byteLength]]

\* C21: parseGLB rejects an input that carries a second JSON chunk or a second
\* BIN chunk, and the chunks of unknown type of a complete buffer change
\* nothing of the parsed JSON and BIN.
C21_OneJsonOneBin ==
    pOut.status # "idle" =>
        /\ Cardinality(WalkedOfType(pIn, CHUNK_JSON)) > 1 => pOut.status = "error"
        /\ Cardinality(WalkedOfType(pIn, CHUNK_BIN)) > 1 => pOut.status = "error"
        /\ (pIn.byteLength = PayloadEnd(pIn.chunks) /\ pIn.totalLength = pIn.byteLength) =>
              Asset(pOut) = Asset(parseGLB(KnownChunksOnly(pIn)))

(***************************************************************************)
(* SpecWorld: writeGLB on a document of two nodes, the second one a child  *)
(* of the first or its sibling, with every POSITION quantized.  A vertex   *)
(* of a node's mesh is placed in the world by the node's translation,      *)
(* rotation and scale and then by those of its ancestors.                  *)
(***************************************************************************)
\* A glTF node with its children (0-based node indices)
NodeWithChildren(node, children) ==
    [mesh |-> node.mesh, scale |-> node.scale, rotation |-> node.rotation,
     translation |-> node.translation, children |-> children]

Hierarchies == {"child", "sibling"}

InitWorld ==
    /\ \E parent \in NodeChoices, child \in NodeChoices, hierarchy \in Hierarchies,
          first \in TransformChoices \ {NoTransform},
          second \in TransformChoices \ {NoTransform} :
          fIn = [primitives |-> NodePrimitives(first, second),
                 originalJSON |->
                    [nodes |-> Present(<<NodeWithChildren(parent,
                                            IF hierarchy = "child" THEN <<1>> ELSE << >>),
                                         NodeWithChildren(child, << >>)>>)]]
    /\ fOut = Idle
    /\ ParserIdle
    /\ WriterIdle

\* writeGLB: json.nodes is a copy of originalJSON.nodes (line 39), handed to
\* applyQuantizationTransforms (line 467)
WriteWorld ==
    /\ fOut = Idle
    /\ fOut' = applyQuantizationTransforms(CopiedNodes(fIn.originalJSON.nodes).nodes,
                                           fIn.primitives, fIn.originalJSON.nodes)
    /\ UNCHANGED fIn
    /\ UNCHANGED <<pIn, pOut, aIn, aOut>>
    /\ UNCHANGED writerVars

NextWorld == WriteWorld

SpecWorld == InitWorld /\ [][NextWorld]_vars

\* glTF: a node places v at translation + rotation(scale * v)
Placed(node, v) ==
    LET scale == IF node.scale.present THEN node.scale.v ELSE <<1, 1, 1>>
        rotation == IF node.rotation.present THEN node.rotation.v ELSE <<0, 0, 0, 2>>
        translation == IF node.translation.present THEN node.translation.v ELSE <<0, 0, 0>>
        turned == Rotated([k \in 1..3 |-> scale[k] * v[k]], rotation)
    IN  [k \in 1..3 |-> translation[k] + turned[k]]

\* The parents of node i (1-based) in the list
Parents(nodes, i) ==
    {j \in 1..Len(nodes) : \E c \in 1..Len(nodes[j].children) : nodes[j].children[c] = i - 1}

\* The world-space place of v, a point of the mesh of node i
RECURSIVE World(_, _, _)
World(nodes, i, v) ==
    IF Parents(nodes, i) = {} THEN Placed(nodes[i], v)
    ELSE World(nodes, CHOOSE j \in Parents(nodes, i) : TRUE, Placed(nodes[i], v))

\* scale * q + translation
Dequantized(transform, q) == [k \in 1..3 |-> transform.scale[k] * q[k] + transform.translation[k]]

\* Four quantized points that are not in one plane: two affine maps that agree
\* on them agree everywhere
SamplePoints == {<<0, 0, 0>>, <<1, 0, 0>>, <<0, 1, 0>>, <<0, 0, 1>>}

\* C22: with quantized positions, every vertex of every primitive of the mesh
\* of every node, at any depth, is at the same place in the world when it is
\* computed from the written nodes and the quantized position as when it is
\* computed from the original nodes and the position the quantized one
\* stands for.
C22_WorldPositionsKept ==
    fOut # Idle =>
        \A i \in 1..Len(fOut.list) :
           \A p \in 1..Len(fIn.primitives) :
              fIn.primitives[p].meshIndex = fOut.list[i].mesh =>
                 \A q \in SamplePoints :
                    World(fOut.list, i, q)
                      = World(fIn.originalJSON.nodes.list, i,
                              Dequantized(fIn.primitives[p].POSITION.transform, q))

(***************************************************************************)
(* SpecChain: one call of generateLODChain, step by step: the importance   *)
(* of one primitive after the other (texture-aware runs only), then one    *)
(* level after the other.  originalPrimitives is the array of primData     *)
(* objects getAllPrimitives returned; fOut.primitives is what these        *)
(* objects hold as the call goes on.  fOut.decodes, fOut.analyses and      *)
(* fOut.calls are histories: the images loadImageData was called on, the   *)
(* primitives analyzeTextureImportance was called on, and the calls of the *)
(* Simplifier's simplify and simplifyWithAttributes.  Scores are in        *)
(* hundredths.                                                             *)
(***************************************************************************)
MaxChainTriangles == 2  \* triangles of a primitive of the asset

\* loadImageData resolved for this image: buildImportanceMap and, per vertex,
\* sampleImportance, weighted, normalized by the maximum (lines 289-325)
SampledImportance(vertexCount) == [v \in 1..vertexCount |-> IF v = vertexCount THEN 100 ELSE 20]

\* The loop over textureInfos (lines 254-306), from slot k on: the cache, the
\* images loadImageData was called on, whether a texture was sampled
RECURSIVE SampleTextures(_, _, _, _, _, _)
SampleTextures(textures, k, images, textureCache, decodes, totalWeight) ==
    IF k > Len(textures)
    THEN [textureCache |-> textureCache, decodes |-> decodes, totalWeight |-> totalWeight]
    ELSE LET imageIndex == textures[k]
         IN  IF imageIndex \in textureCache
             THEN SampleTextures(textures, k + 1, images, textureCache, decodes,
                                 totalWeight + 1)
             ELSE IF images[imageIndex + 1].decodable
             THEN SampleTextures(textures, k + 1, images, textureCache \cup {imageIndex},
                                 Append(decodes, imageIndex), totalWeight + 1)
             ELSE SampleTextures(textures, k + 1, images, textureCache,
                                 Append(decodes, imageIndex), totalWeight)

HasAttribute(primitive, name) ==
    \E a \in 1..Len(primitive.attributes) : primitive.attributes[a].name = name

AttributeData(primitive, name) ==
    primitive.attributes[CHOOSE a \in 1..Len(primitive.attributes) :
                            primitive.attributes[a].name = name].data

\* analyzeTextureImportance(prim, parsedGLB, textureCache)
analyzeTextureImportance(primitive, images, textureCache) ==
    LET vertexCount == Len(AttributeData(primitive, "POSITION"))
    IN  IF ~HasAttribute(primitive, "TEXCOORD_0") \/ Len(primitive.textures) = 0
        THEN [importance |-> Absent, textureCache |-> textureCache, decodes |-> << >>]
        ELSE LET sampled == SampleTextures(primitive.textures, 1, images, textureCache,
                                           << >>, 0)
             IN  [importance |-> Present(IF sampled.totalWeight > 0
                                         THEN SampledImportance(vertexCount)
                                         ELSE [v \in 1..vertexCount |-> 0]),
                  textureCache |-> sampled.textureCache,
                  decodes |-> sampled.decodes]

\* mergeImportance(textureImportance, viewImportance)
mergeImportance(textureImportance, viewImportance) ==
    IF ~textureImportance.present /\ ~viewImportance.present THEN Absent
    ELSE IF ~textureImportance.present THEN viewImportance
    ELSE IF ~viewImportance.present THEN textureImportance
    ELSE LET length == Max(Len(textureImportance.list), Len(viewImportance.list))
         IN  Present([i \in 1..length |->
                        Max(IF i <= Len(textureImportance.list)
                            THEN textureImportance.list[i] ELSE 0,
                            IF i <= Len(viewImportance.list)
                            THEN viewImportance.list[i] ELSE 0)])

\* findUVSeams(positions, uvs): the vertices of a position whose vertices do
\* not all have the UV of the first of them
findUVSeams(positions, uvs) ==
    {v - 1 : v \in {v \in 1..Len(positions) :
                       \E w \in 1..Len(positions) :
                          /\ positions[w] = positions[v]
                          /\ \E x \in 1..Len(positions) :
                                positions[x] = positions[v] /\ uvs[x] # uvs[w]}}

\* Lines 1028-1066: what simplifyPrimitive hands to the Simplifier
SimplifyArguments(primitive, targetRatio, options) ==
    LET indices == IndicesOf(primitive)
        positions == AttributeData(primitive, "POSITION")
        aware == options.textureAware /\ options.textureImportance.present
        hasUV == HasAttribute(primitive, "TEXCOORD_0")
        uvSeams == IF hasUV THEN findUVSeams(positions, AttributeData(primitive, "TEXCOORD_0"))
                   ELSE {}
    IN  [indexCount |-> Len(indices),
         target |-> targetIndexCountAligned(Len(indices), targetRatio),
         textureAware |-> aware,
         vertexLock |-> IF aware /\ hasUV
                        THEN Present(vertexLock(options.textureImportance.list, uvSeams,
                                                options.importanceThreshold))
                        ELSE Absent]

\* The vertices that the first "kept" triangles use
UsedVertices(indices, kept) == {indices[i] : i \in 1..(3 * kept)}

\* What the Simplifier may return: some of the triangles; it removes no
\* vertex of lock 1
LockedOutcomes(indices, lock) ==
    {kept \in 0..(Len(indices) \div 3) :
        /\ Len(indices) > 0 => kept > 0
        /\ lock.present =>
              \A v \in UsedVertices(indices, Len(indices) \div 3) :
                 (v + 1 <= Len(lock.list) /\ lock.list[v + 1] = 1) =>
                     v \in UsedVertices(indices, kept)}

\* A triangle list of n triangles over 3n vertices, the indices ascending or
\* descending, with the images its material's textures name
ChainPrimitive(n, descending, hasUV, textures) ==
    [attributes |-> <<[name |-> "POSITION", data |-> DistinctData(3 * n)],
                      [name |-> "NORMAL", data |-> DistinctData(3 * n)]>>
                    \o (IF hasUV THEN <<[name |-> "TEXCOORD_0", data |-> DistinctData(3 * n)]>>
                        ELSE << >>),
     indices |-> Present([i \in 1..(3 * n) |-> IF descending THEN 3 * n - i ELSE i - 1]),
     textures |-> textures]

\* View importance of a primitive of n triangles, as perVertex.get(i) || null
\* gives it
ViewImportance(n, seen) ==
    IF seen /\ n > 0 THEN Present([v \in 1..(3 * n) |-> IF v = 3 * n THEN 100 ELSE 0])
    ELSE Absent

ChainCapabilities == CapabilityChoices \cup {[simplifier |-> FALSE, encoder |-> TRUE]}

ChainLevels == {levels \in LevelLists : levels[1] \in {100, 50}}

SecondPrimitives ==
    {<< >>, <<ChainPrimitive(1, FALSE, TRUE, <<0>>)>>, <<ChainPrimitive(1, FALSE, FALSE, << >>)>>}

InitChain ==
    /\ \E n \in 0..MaxChainTriangles, descending \in BOOLEAN, hasUV \in BOOLEAN,
          textures \in {<< >>, <<0>>, <<0, 0>>}, seen \in BOOLEAN,
          second \in SecondPrimitives, levels \in ChainLevels,
          supported \in ChainCapabilities, decodable \in BOOLEAN, textureAware \in BOOLEAN :
          /\ n = 0 => ~descending
          /\ ~hasUV => textures = << >>
          /\ fIn = [originalPrimitives |->
                        <<ChainPrimitive(n, descending, hasUV, textures)>> \o second,
                    images |-> <<[decodable |-> decodable]>>,
                    levels |-> levels,
                    options |-> [optimize |-> DEFAULT_OPTIONS,
                                 textureAware |-> textureAware,
                                 importanceThreshold |-> DEFAULT_IMPORTANCE_THRESHOLD,
                                 viewImportanceResult |->
                                     <<ViewImportance(n, seen)>>
                                     \o [p \in 1..Len(second) |-> Absent]],
                    supported |-> supported]
          /\ fOut = [status |-> "running",
                     primitives |-> <<ChainPrimitive(n, descending, hasUV, textures)>>
                                    \o second,
                     textureCache |-> {}, decodes |-> << >>, analyses |-> << >>,
                     textureImportanceMap |->
                         [p \in 1..(1 + Len(second)) |-> Absent],
                     calls |-> << >>, lodChain |-> << >>]
    /\ ParserIdle
    /\ WriterIdle

\* Lines 1149-1168: one turn of the loop over originalPrimitives
AnalyzePrimitive ==
    /\ fOut.status = "running"
    /\ fIn.options.textureAware
    /\ Len(fOut.analyses) < Len(fIn.originalPrimitives)
    /\ LET i == Len(fOut.analyses) + 1
           texture == analyzeTextureImportance(fOut.primitives[i], fIn.images,
                                               fOut.textureCache)
           merged == mergeImportance(texture.importance, fIn.options.viewImportanceResult[i])
       IN  fOut' = [fOut EXCEPT !.analyses = Append(@, i),
                                !.textureCache = texture.textureCache,
                                !.decodes = @ \o texture.decodes,
                                !.textureImportanceMap[i] = merged]
    /\ UNCHANGED fIn
    /\ UNCHANGED <<pIn, pOut, aIn, aOut>>
    /\ UNCHANGED writerVars

\* Lines 1171-1204: one turn of the loop over levels.  simplifyPrimitive
\* without the Simplifier returns the primData object it was given, and
\* optimizePrimitive assigns to the attributes of the object it is given.
ChainLevel ==
    /\ fOut.status = "running"
    /\ fIn.options.textureAware => Len(fOut.analyses) = Len(fIn.originalPrimitives)
    /\ Len(fOut.lodChain) < Len(fIn.levels)
    /\ LET level == Len(fOut.lodChain) + 1
           targetRatio == fIn.levels[level]
           count == Len(fIn.originalPrimitives)
           arguments == [p \in 1..count |->
                           SimplifyArguments(fOut.primitives[p], targetRatio,
                               [textureAware |-> fIn.options.textureAware
                                                 /\ fOut.textureImportanceMap[p].present,
                                textureImportance |-> fOut.textureImportanceMap[p],
                                importanceThreshold |-> fIn.options.importanceThreshold])]
       IN  \E kept \in [1..count -> 0..MaxChainTriangles] :
              /\ \A p \in 1..count :
                    kept[p] \in LockedOutcomes(IndicesOf(fOut.primitives[p]),
                                               arguments[p].vertexLock)
              /\ LET simplifiedPrimitives ==
                         [p \in 1..count |->
                            simplifyPrimitive(fOut.primitives[p], fIn.supported, kept[p])]
                     order == [p \in 1..count |->
                                 [t \in 1..(Len(IndicesOf(simplifiedPrimitives[p])) \div 3)
                                    |-> t]]
                     optimized ==
                         [p \in 1..count |->
                            optimizePrimitive(simplifiedPrimitives[p], fIn.options.optimize,
                                              fIn.supported, order[p])]
                     left == [p \in 1..count |->
                                IF fIn.supported.simplifier THEN fOut.primitives[p]
                                ELSE [fOut.primitives[p] EXCEPT !.attributes =
                                         PrimitiveAfterOptimize(simplifiedPrimitives[p],
                                             fIn.options.optimize, fIn.supported,
                                             order[p]).attributes]]
                     made == IF fIn.supported.simplifier
                             THEN [p \in 1..count |->
                                     [level |-> level, primitive |-> p, kept |-> kept[p],
                                      textureImportance |-> fOut.textureImportanceMap[p],
                                      arguments |-> arguments[p]]]
                             ELSE << >>
                 IN  fOut' = [fOut EXCEPT
                        !.status = IF \E p \in 1..count : optimized[p].status = "thrown"
                                   THEN "thrown" ELSE @,
                        !.primitives = left,
                        !.calls = @ \o made,
                        !.lodChain = Append(@,
                            [level |-> targetRatio,
                             kept |-> kept,
                             simplified |-> [p \in 1..count |->
                                               IndicesOf(simplifiedPrimitives[p])],
                             optimized |-> optimized,
                             triangleCount |-> totalTriangles(simplifiedPrimitives),
                             originalTriangleCount |->
                                 totalOriginalTriangles(simplifiedPrimitives)])]
    /\ UNCHANGED fIn
    /\ UNCHANGED <<pIn, pOut, aIn, aOut>>
    /\ UNCHANGED writerVars

ChainReturn ==
    /\ fOut.status = "running"
    /\ fIn.options.textureAware => Len(fOut.analyses) = Len(fIn.originalPrimitives)
    /\ Len(fOut.lodChain) = Len(fIn.levels)
    /\ fOut' = [fOut EXCEPT !.status = "returned"]
    /\ UNCHANGED fIn
    /\ UNCHANGED <<pIn, pOut, aIn, aOut>>
    /\ UNCHANGED writerVars

NextChain ==
    \/ AnalyzePrimitive
    \/ ChainLevel
    \/ ChainReturn

SpecChain == InitChain /\ [][NextChain]_vars

(***************************************************************************)
(* Properties of generateLODChain (under SpecChain)                        *)
(***************************************************************************)
\* C23: at a level of ratio 1.0 the Simplifier's simplify is called for no
\* primitive, and the triangles of the level are the original triangles.
C23_FullRatioSkipsSimplify ==
    /\ \A c \in 1..Len(fOut.calls) : fIn.levels[fOut.calls[c].level] # 100
    /\ \A k \in 1..Len(fOut.lodChain) :
          fOut.lodChain[k].level = 100 =>
              \A p \in 1..Len(fIn.originalPrimitives) :
                 fOut.lodChain[k].simplified[p] = IndicesOf(fIn.originalPrimitives[p])

\* C24: a primitive without triangles goes through every level as it is: the
\* Simplifier is not called for it, no call of the Simplifier asks for more
\* indices than the primitive has, and the call of generateLODChain does not
\* throw because of it.
C24_EmptyPrimitivePassesThrough ==
    /\ \A c \in 1..Len(fOut.calls) :
          /\ fOut.calls[c].arguments.indexCount > 0
          /\ fOut.calls[c].arguments.target <= fOut.calls[c].arguments.indexCount
    /\ (\A p \in 1..Len(fIn.originalPrimitives) :
           Len(IndicesOf(fIn.originalPrimitives[p])) \in {0, 3})
        => fOut.status # "thrown"
    /\ \A k \in 1..Len(fOut.lodChain) :
          \A p \in 1..Len(fIn.originalPrimitives) :
             (Len(IndicesOf(fIn.originalPrimitives[p])) = 0
                 /\ fOut.lodChain[k].optimized[p].status = "returned") =>
                /\ fOut.lodChain[k].optimized[p].indices = << >>
                /\ fOut.lodChain[k].optimized[p].vertexCount = 0

\* How often x occurs in the sequence q
Occurrences(q, x) == Cardinality({i \in 1..Len(q) : q[i] = x})

\* C25: in a texture-aware call the importance of every primitive is computed
\* once, before the first level; every call of the Simplifier for the
\* primitive, at whatever level, is made with that importance; and no image
\* is decoded more than once in the call, whether several textures or
\* primitives name it and whether its decoding fails.
C25_ImportanceOncePerCall ==
    /\ \A p \in 1..Len(fIn.originalPrimitives) : Occurrences(fOut.analyses, p) <= 1
    /\ (fIn.options.textureAware /\ Len(fOut.lodChain) > 0) =>
           \A p \in 1..Len(fIn.originalPrimitives) : Occurrences(fOut.analyses, p) = 1
    /\ \A c \in 1..Len(fOut.calls) :
          fOut.calls[c].textureImportance = fOut.textureImportanceMap[fOut.calls[c].primitive]
    /\ \A i \in 1..Len(fIn.images) : Occurrences(fOut.decodes, i - 1) <= 1

\* The lock that the importance of call c gives, without seams when the
\* primitive has no TEXCOORD_0
LockOfCall(c) ==
    LET primitive == fIn.originalPrimitives[c.primitive]
    IN  vertexLock(c.textureImportance.list,
                   IF HasAttribute(primitive, "TEXCOORD_0")
                   THEN findUVSeams(AttributeData(primitive, "POSITION"),
                                    AttributeData(primitive, "TEXCOORD_0"))
                   ELSE {},
                   fIn.options.importanceThreshold)

\* C26: every call of the Simplifier for a primitive that has an importance
\* map in a texture-aware run is given the vertex lock built from that map,
\* with or without TEXCOORD_0, and what it returns still uses every vertex
\* of lock 1 that the primitive used.
C26_LockAlwaysPassed ==
    \A k \in 1..Len(fOut.calls) :
       LET c == fOut.calls[k]
           indices == IndicesOf(fIn.originalPrimitives[c.primitive])
       IN  (fIn.options.textureAware /\ c.textureImportance.present) =>
              /\ c.arguments.vertexLock = Present(LockOfCall(c))
              /\ \A v \in UsedVertices(indices, Len(indices) \div 3) :
                    (v + 1 <= Len(LockOfCall(c)) /\ LockOfCall(c)[v + 1] = 1) =>
                        v \in UsedVertices(indices, c.kept)

(***************************************************************************)
(* Declared component types (under Spec)                                   *)
(***************************************************************************)
\* C27: every index or attribute accessor of a primitive that points at an
\* uncompressed bufferView declares the type of the bytes that are stored:
\* the view's byteLength is count * componentSize * numComponents, also for
\* an attribute that is passed through (COLOR_0 with 8-bit components) after
\* the optimizer remapped its data.
C27_DeclaredTypeMatchesData ==
    \A a \in 1..Len(accessors) :
       LET v == accessors[a].bufferView + 1
       IN  (/\ v <= Len(bufferViews)
            /\ emitted[v].phase \in {"indices", "attribute"}
            /\ ~bufferViews[v].extension.present) =>
              bufferViews[v].byteLength
                 = accessors[a].count * COMPONENT_SIZE(accessors[a].componentType)
                      * TYPE_COMPONENTS(accessors[a].type)

(***************************************************************************)
(* Inputs left alone (under SpecChain)                                     *)
(***************************************************************************)
\* C28: the primitives of the asset are at every moment as getAllPrimitives
\* returned them, and every level holds what optimizePrimitive makes of
\* simplifyPrimitive's result for the original primitive, whichever levels
\* came before, also without the Simplifier.
C28_OriginalPrimitivesUntouched ==
    /\ fOut.primitives = fIn.originalPrimitives
    /\ \A k \in 1..Len(fOut.lodChain) :
          \A p \in 1..Len(fIn.originalPrimitives) :
             LET simplified == simplifyPrimitive(fIn.originalPrimitives[p], fIn.supported,
                                                 fOut.lodChain[k].kept[p])
             IN  fOut.lodChain[k].optimized[p]
                    = optimizePrimitive(simplified, fIn.options.optimize, fIn.supported,
                                        [t \in 1..(Len(IndicesOf(simplified)) \div 3) |-> t])

(***************************************************************************)
(* View-space analysis: analyzeViewImportance and processView              *)
(*                                                                         *)
(* A rendered view is held as runs of interior pixels that share an id     *)
(* color and an edge magnitude; processView visits the pixels of a run one *)
(* after another, so a run of n pixels adds n times the edge to            *)
(* triangleImportance and n increments to triangleVisibility.  Edge        *)
(* magnitudes are 0 or 1, whose sums a Float32Array holds exactly up to    *)
(* 2^24; triangleVisibility is a Uint16Array.                              *)
(***************************************************************************)
RENDER_SIZE == 512

VIEWPOINTS == 1..12

Uint16 == 65536

\* Lines 384-385: x and y run over 1 .. RENDER_SIZE - 2
InteriorPixels == (RENDER_SIZE - 2) * (RENDER_SIZE - 2)

SmallCover == 3

LargeCover == InteriorPixels \div 4

ViewTriangles == 2

\* Line 391: triangleId = (r | (g << 8) | (b << 16)) - 1
TriangleIdOf(r, g, b) == (r + g * 256 + b * 65536) - 1

\* What the two render passes of one viewpoint read back: the background,
\* triangle 0 (large, small or hidden), triangle 1, and one pixel whose id
\* color names no triangle.
RenderedView(scene, viewpoint) ==
    LET cover == IF viewpoint \in scene.large THEN LargeCover
                 ELSE IF viewpoint \in scene.small THEN SmallCover ELSE 0
        edge  == IF scene.edges = "all" \/ (scene.edges = "large" /\ viewpoint \in scene.large)
                 THEN 1 ELSE 0
    IN  << [r |-> 0, g |-> 0, b |-> 0, edge |-> 1,
            pixels |-> InteriorPixels - cover - SmallCover - 1],
           [r |-> 1, g |-> 0, b |-> 0, edge |-> edge, pixels |-> cover],
           [r |-> 2, g |-> 0, b |-> 0, edge |-> 1, pixels |-> SmallCover],
           [r |-> 3, g |-> 0, b |-> 0, edge |-> 1, pixels |-> 1] >>

\* Lines 380-401
RECURSIVE processView(_, _, _, _, _)
processView(runs, k, triangleImportance, triangleVisibility, triangleTotal) ==
    IF k > Len(runs) THEN [triangleImportance |-> triangleImportance,
                           triangleVisibility |-> triangleVisibility]
    ELSE LET triangleId == TriangleIdOf(runs[k].r, runs[k].g, runs[k].b)
         IN  IF triangleId < 0 \/ triangleId >= triangleTotal
             THEN processView(runs, k + 1, triangleImportance, triangleVisibility,
                              triangleTotal)
             ELSE processView(runs, k + 1,
                      [triangleImportance EXCEPT ![triangleId + 1] =
                           @ + runs[k].edge * runs[k].pixels],
                      [triangleVisibility EXCEPT ![triangleId + 1] =
                           (@ + runs[k].pixels) % Uint16],
                      triangleTotal)

\* The orders in which the twelve viewpoints may be visited
ViewOrders ==
    { [v \in VIEWPOINTS |-> v],
      [v \in VIEWPOINTS |-> 13 - v],
      [v \in VIEWPOINTS |-> IF v = 12 THEN 1 ELSE v + 1] }

Scenes ==
    { [large |-> large, small |-> small, edges |-> edges] :
         large \in {s \in SUBSET VIEWPOINTS : Cardinality(s) <= 2},
         small \in {s \in SUBSET {1, 2, 7} : TRUE},
         edges \in {"none", "large", "all"} }

InitViews ==
    /\ \E scene \in Scenes, order \in ViewOrders :
          /\ scene.large \cap scene.small = {}
          /\ fIn = [scene |-> scene, order |-> order, totalTriangles |-> ViewTriangles]
          /\ fOut = [status |-> "rendering", v |-> 0,
                     triangleImportance |-> [t \in 1..ViewTriangles |-> 0],
                     triangleVisibility |-> [t \in 1..ViewTriangles |-> 0],
                     score |-> << >>]
    /\ ParserIdle
    /\ WriterIdle

\* Lines 164-182: one turn of the loop over VIEWPOINTS
RenderViewpoint ==
    /\ fOut.status = "rendering"
    /\ fOut.v < Cardinality(VIEWPOINTS)
    /\ LET after == processView(RenderedView(fIn.scene, fIn.order[fOut.v + 1]), 1,
                                fOut.triangleImportance, fOut.triangleVisibility,
                                fIn.totalTriangles)
       IN  fOut' = [fOut EXCEPT !.v = @ + 1,
                                !.triangleImportance = after.triangleImportance,
                                !.triangleVisibility = after.triangleVisibility]
    /\ UNCHANGED fIn
    /\ UNCHANGED <<pIn, pOut, aIn, aOut>>
    /\ UNCHANGED writerVars

\* Lines 184-188: triangleImportance[t] /= triangleVisibility[t], kept as the
\* fraction it is.
AverageOverViews ==
    /\ fOut.status = "rendering"
    /\ fOut.v = Cardinality(VIEWPOINTS)
    /\ fOut' = [fOut EXCEPT !.status = "averaged",
                   !.score = [t \in 1..fIn.totalTriangles |->
                                 [sum |-> fOut.triangleImportance[t],
                                  over |-> IF fOut.triangleVisibility[t] > 0
                                           THEN fOut.triangleVisibility[t] ELSE 1]]]
    /\ UNCHANGED fIn
    /\ UNCHANGED <<pIn, pOut, aIn, aOut>>
    /\ UNCHANGED writerVars

NextViews ==
    \/ RenderViewpoint
    \/ AverageOverViews

SpecViews == InitViews /\ [][NextViews]_vars

\* The pixels of the first k views of the order whose id color is triangle t,
\* and the sum of their edge magnitudes
RECURSIVE PixelsOf(_, _, _, _)
PixelsOf(scene, order, k, t) ==
    IF k = 0 THEN [pixels |-> 0, edges |-> 0]
    ELSE LET before == PixelsOf(scene, order, k - 1, t)
             runs   == RenderedView(scene, order[k])
             mine   == {i \in 1..Len(runs) : TriangleIdOf(runs[i].r, runs[i].g, runs[i].b) = t}
             i      == CHOOSE i \in mine : TRUE
         IN  IF mine = {} THEN before
             ELSE [pixels |-> before.pixels + runs[i].pixels,
                   edges |-> before.edges + runs[i].edge * runs[i].pixels]

\* C29: triangleVisibility holds for every triangle the exact number of pixels
\* of the views processed so far whose id color is the triangle; after the
\* twelve views the score is the edge sum over that number, and is the one
\* the views give in the order of VIEWPOINTS.
C29_VisibilityIsPixelCount ==
    fOut.status \in {"rendering", "averaged"} =>
       \A t \in 1..fIn.totalTriangles :
          LET exact == PixelsOf(fIn.scene, fIn.order, fOut.v, t - 1)
              plain == PixelsOf(fIn.scene, [v \in VIEWPOINTS |-> v], fOut.v, t - 1)
          IN  /\ fOut.triangleVisibility[t] = exact.pixels
              /\ fOut.status = "averaged" =>
                    /\ exact.pixels > 0 =>
                          fOut.score[t] = [sum |-> exact.edges, over |-> exact.pixels]
                    /\ exact.pixels = plain.pixels
                    /\ exact.edges = plain.edges

(***************************************************************************)
(* The application: handleFile, compress, the LOD buttons and download     *)
(*                                                                         *)
(* Each action is the part of a handler that runs between two awaits.      *)
(* A file, a parsed asset, a LOD chain and a written GLB are each held as  *)
(* the number of the dropped file they were made from (0: null).  The      *)
(* awaits modelled wait for file reads, image decodes, timers and model    *)
(* loads, between which the browser delivers further events.  A button     *)
(* takes a click only while it is enabled, and the LOD buttons only while  *)
(* the results and viewer panels are shown.                                *)
(***************************************************************************)
MaxLoads == 2

MaxCompress == 2

\* Line 255: the ratios handed to generateLODChain
LodLevelCount == 6

NoChain == [from |-> 0, views |-> 0]

NoOutput == [from |-> 0, views |-> 0, images |-> 0]

NoButtons == [present |-> FALSE, chain |-> NoChain, images |-> 0]

DroppedFiles ==
    { files \in [1..MaxLoads -> [validName : BOOLEAN, parses : BOOLEAN]] :
         \A f \in 1..MaxLoads : ~files[f].validName => files[f].parses }

InitApp ==
    /\ \E files \in DroppedFiles : fIn = [files |-> files]
    /\ fOut = [currentFile |-> 0, currentArrayBuffer |-> 0, parsedGLB |-> 0,
               optimizedGLBData |-> NoOutput, lodChain |-> NoChain,
               currentLODIndex |-> 0,
               compressBtnDisabled |-> TRUE, downloadBtnDisabled |-> TRUE,
               resultsPanel |-> FALSE, viewerPanel |-> FALSE,
               lodButtons |-> NoButtons,
               loads |-> << >>, compresses |-> << >>,
               nullDereferenced |-> FALSE, downloaded |-> NoOutput, downloadedAs |-> 0]
    /\ ParserIdle
    /\ WriterIdle

AppUnchanged ==
    /\ UNCHANGED fIn
    /\ UNCHANGED <<pIn, pOut, aIn, aOut>>
    /\ UNCHANGED writerVars

\* Lines 107-114: handleFile up to await file.arrayBuffer()
handleFile ==
    /\ Len(fOut.loads) < MaxLoads
    /\ LET file == Len(fOut.loads) + 1
       IN  IF ~fIn.files[file].validName
           THEN fOut' = [fOut EXCEPT !.loads = Append(@, [file |-> file, at |-> "done"])]
           ELSE fOut' = [fOut EXCEPT !.currentFile = file,
                                     !.loads = Append(@, [file |-> file, at |-> "arrayBuffer"])]
    /\ AppUnchanged

\* Lines 114-143: from the file's bytes to await analyzeAndDisplayTextures(),
\* or to the catch when parseGLB throws
FileRead(h) ==
    /\ h \in 1..Len(fOut.loads)
    /\ fOut.loads[h].at = "arrayBuffer"
    /\ LET file == fOut.loads[h].file
       IN  IF fIn.files[file].parses
           THEN fOut' = [fOut EXCEPT !.currentArrayBuffer = file,
                                     !.parsedGLB = file,
                                     !.compressBtnDisabled = FALSE,
                                     !.loads[h].at = "textures"]
           ELSE fOut' = [fOut EXCEPT !.currentArrayBuffer = file,
                                     !.loads[h].at = "done"]
    /\ AppUnchanged

\* Lines 145-153: the reset that ends handleFile
ResetResults(h) ==
    /\ h \in 1..Len(fOut.loads)
    /\ fOut.loads[h].at = "textures"
    /\ fOut' = [fOut EXCEPT !.resultsPanel = FALSE,
                            !.viewerPanel = FALSE,
                            !.downloadBtnDisabled = TRUE,
                            !.optimizedGLBData = NoOutput,
                            !.lodChain = NoChain,
                            !.loads[h].at = "done"]
    /\ AppUnchanged

\* Lines 230-251: compress up to await sleep(50)
compress ==
    /\ ~fOut.compressBtnDisabled
    /\ Len(fOut.compresses) < MaxCompress
    /\ fOut.parsedGLB # 0
    /\ \E scaled \in BOOLEAN :
          fOut' = [fOut EXCEPT !.compressBtnDisabled = TRUE,
                      !.compresses = Append(@, [at |-> "sleep", scaled |-> scaled,
                                                chain |-> NoChain, processedImages |-> 0])]
    /\ AppUnchanged

\* Lines 253-255: the call of generateLODChain, which reads parsedGLB and
\* currentArrayBuffer as they are now
StartChain(c) ==
    /\ c \in 1..Len(fOut.compresses)
    /\ fOut.compresses[c].at = "sleep"
    /\ fOut' = [fOut EXCEPT !.compresses[c].at = "chain",
                            !.compresses[c].chain = [from |-> fOut.parsedGLB,
                                                     views |-> fOut.currentArrayBuffer]]
    /\ AppUnchanged

\* Lines 281-288: catch and finally
Finished(app, c) ==
    [app EXCEPT !.compressBtnDisabled = FALSE, !.compresses[c].at = "done"]

\* Lines 263-276: from currentLODIndex = 0 to the await inside setupViewers
WriteFirstLevel(app, c, processedImages) ==
    IF app.lodChain = NoChain
    THEN Finished([app EXCEPT !.nullDereferenced = TRUE], c)
    ELSE [app EXCEPT !.currentLODIndex = 0,
                     !.optimizedGLBData = [from |-> app.lodChain.from,
                                           views |-> app.lodChain.views,
                                           images |-> processedImages],
                     !.resultsPanel = TRUE,
                     !.downloadBtnDisabled = FALSE,
                     !.viewerPanel = TRUE,
                     !.compresses[c].at = "viewers"]

\* Lines 255-261: the chain arrives, or generateLODChain rejects
ChainGenerated(c) ==
    /\ c \in 1..Len(fOut.compresses)
    /\ fOut.compresses[c].at = "chain"
    /\ \E rejected \in BOOLEAN :
          fOut' = IF rejected THEN Finished(fOut, c)
                  ELSE LET assigned == [fOut EXCEPT !.lodChain = fOut.compresses[c].chain]
                       IN  IF fOut.compresses[c].scaled
                           THEN [assigned EXCEPT !.compresses[c].at = "textures",
                                                 !.compresses[c].processedImages =
                                                     fOut.parsedGLB]
                           ELSE WriteFirstLevel(assigned, c, 0)
    /\ AppUnchanged

\* Lines 260-276 when processTextures was awaited
TexturesProcessed(c) ==
    /\ c \in 1..Len(fOut.compresses)
    /\ fOut.compresses[c].at = "textures"
    /\ fOut' = WriteFirstLevel(fOut, c, fOut.compresses[c].processedImages)
    /\ AppUnchanged

\* Lines 278-288 and 291-323: setupLODSelector after the viewers loaded
ViewersReady(c) ==
    /\ c \in 1..Len(fOut.compresses)
    /\ fOut.compresses[c].at = "viewers"
    /\ fOut' = IF fOut.lodChain = NoChain
               THEN Finished([fOut EXCEPT !.nullDereferenced = TRUE,
                                          !.lodButtons = NoButtons], c)
               ELSE Finished([fOut EXCEPT !.lodButtons =
                                 [present |-> TRUE, chain |-> fOut.lodChain,
                                  images |-> fOut.compresses[c].processedImages]], c)
    /\ AppUnchanged

\* Lines 299-311: the click handler of LOD button index
SelectLOD(index) ==
    /\ fOut.lodButtons.present
    /\ fOut.resultsPanel
    /\ fOut.viewerPanel
    /\ fOut' = [fOut EXCEPT !.currentLODIndex = index,
                            !.optimizedGLBData = [from |-> fOut.lodButtons.chain.from,
                                                  views |-> fOut.lodButtons.chain.views,
                                                  images |-> fOut.lodButtons.images],
                            !.downloadBtnDisabled = FALSE]
    /\ AppUnchanged

\* Lines 389-397
download ==
    /\ ~fOut.downloadBtnDisabled
    /\ fOut.optimizedGLBData # NoOutput
    /\ fOut' = [fOut EXCEPT !.downloaded = fOut.optimizedGLBData,
                            !.downloadedAs = fOut.currentFile]
    /\ AppUnchanged

NextApp ==
    \/ handleFile
    \/ \E h \in 1..MaxLoads : FileRead(h)
    \/ \E h \in 1..MaxLoads : ResetResults(h)
    \/ compress
    \/ \E c \in 1..MaxCompress : StartChain(c)
    \/ \E c \in 1..MaxCompress : ChainGenerated(c)
    \/ \E c \in 1..MaxCompress : TexturesProcessed(c)
    \/ \E c \in 1..MaxCompress : ViewersReady(c)
    \/ \E index \in 0..(LodLevelCount - 1) : SelectLOD(index)
    \/ download

SpecApp == InitApp /\ [][NextApp]_vars

InFlight(tasks) == {t \in 1..Len(tasks) : tasks[t].at # "done"}

\* C30: while no file load is under way and the download button is enabled,
\* the output, the LOD chain and the processed images were all made from the
\* file loaded last; no two calls of compress are under way together; and no
\* compress has read an element of a lodChain that was null.
C30_OutputFromLoadedFile ==
    /\ (/\ InFlight(fOut.loads) = {}
        /\ ~fOut.downloadBtnDisabled
        /\ fOut.optimizedGLBData # NoOutput
        /\ fOut.currentFile = fOut.parsedGLB) =>
           /\ fOut.optimizedGLBData.from = fOut.currentFile
           /\ fOut.optimizedGLBData.views = fOut.currentFile
           /\ fOut.optimizedGLBData.images \in {0, fOut.currentFile}
           /\ fOut.lodChain \in {NoChain, [from |-> fOut.currentFile,
                                           views |-> fOut.currentFile]}
    /\ Cardinality(InFlight(fOut.compresses)) <= 1
    /\ ~fOut.nullDereferenced

====
